---- MODULE Spec2Model ----
(***************************************************************************)
(* Model of the geospatial orchestration layer of geospatial-fe:           *)
(*   - normalizeSpeciesToId / getForestLayers (services/geoService)        *)
(*   - client-side species filtering (useGeoLayers, LayerRenderer)         *)
(*   - visibility tracking (useMapsPage)                                   *)
(*   - useDebounce / useDebounceCallback                                   *)
(*   - the forest and cadastre queries of useGeoLayers                     *)
(* Strings are sequences of one-character strings, so that the regular     *)
(* expression replacements of the source are computed, not assumed.        *)
(***************************************************************************)
EXTENDS Integers, Sequences, FiniteSets, TLC

VARIABLES
  \* normalizeSpeciesToId applied to a raw label, and to its own result
  nzIn, nzOut, nzOut2, nzPc,
  \* getForestLayers and the two client-side species filters
  fcIn, selIn, asmOut, hookOut, rendOut, asmPc,
  \* useMapsPage: the layers handed over by useGeoLayers, the tracked visible
  \* ids, whether the sync effect is scheduled, and two history variables:
  \* the ids the user has toggled out, and the visible ids before the last step
  fetchedForestLayers, visibleLayerIds, syncPending, hiddenByUser, prevVisible,
  \* useGeoLayers inside useMapsPage: whether the page is mounted, the live
  \* viewport, the debounced viewport, the pending timeouts of useDebounce and
  \* the filters
  mounted, viewState, debouncedViewState, debTimers, filters,
  \* history of the debounce: milliseconds since the last viewport change,
  \* viewport changes of the current burst (2 stands for two or more),
  \* derivations of geoQuery since the burst began, whether the filters were
  \* left alone since then, and whether a value was emitted after teardown
  quietFor, burstLen, derivations, filtersHeld, emittedAfterUnmount,
  \* a component using useDebounceCallback: mounted, pending timeouts, the
  \* arguments of the last invocation of the callback, and whether the
  \* callback was invoked after teardown
  cbMounted, cbTimers, cbInvokedWith, calledAfterUnmount,
  \* the page's mapError, the query cache under the two useQuery observers of
  \* useGeoLayers, and the requests started by the last step
  mapError, forestCache, cadastreCache, justIssued,
  \* getCadastreLayers applied to the parcels getCadastreData returns
  cadIn, cadOut, cadPc,
  \* the fetches of one query of useGeoLayers: which query, the fetches
  \* started so far, the status of the current fetch, the failures TanStack Query counted, the requests sent upstream
  \* and those of them that failed, and the data and the error the hook exposes
  fqKind, fqFetches, fqStatus, fqFailureCount, fqUpstreamRequests, fqUpstreamFailures, fqData, fqError,
  \* the region, department and commune selected on the page
  selectedRegion, selectedDepartment, selectedCommune,
  \* the AuthProvider's reducer state, the browser's localStorage under the
  \* three session keys, and the login / register call that awaits its answer
  authState, storage, authPc, authCredentials,
  \* the updates of visibleLayerIds that are queued for the next render
  updateQueue,
  \* useLoadingState: its arguments, its state and refs (timers as the
  \* time left), and how long the overlay has been visible and isLoading true
  ldProps, ld, ldHist,
  \* the operation of the last step and its argument
  lastOp, lastArg

nzVars == <<nzIn, nzOut, nzOut2, nzPc>>
asmVars == <<fcIn, selIn, asmOut, hookOut, rendOut, asmPc>>
visVars == <<fetchedForestLayers, visibleLayerIds, syncPending, hiddenByUser, prevVisible>>
debVars == <<mounted, viewState, debouncedViewState, debTimers, filters>>
histVars == <<quietFor, burstLen, derivations, filtersHeld, emittedAfterUnmount>>
cbVars == <<cbMounted, cbTimers, cbInvokedWith, calledAfterUnmount>>
cadVars == <<cadIn, cadOut, cadPc>>
fetchVars == <<fqKind, fqFetches, fqStatus, fqFailureCount, fqUpstreamRequests, fqUpstreamFailures, fqData, fqError>>
selVars == <<selectedRegion, selectedDepartment, selectedCommune>>
authVars == <<authState, storage, authPc, authCredentials>>
batchVars == <<updateQueue>>
loadVars == <<ldProps, ld, ldHist>>
opVars == <<lastOp, lastArg>>
geoVars == <<mapError, forestCache, cadastreCache, justIssued>>
vars == <<nzVars, asmVars, visVars, debVars, histVars, cbVars, geoVars, cadVars, fetchVars, selVars, authVars, batchVars, loadVars, opVars>>

\* what the steps of one part of the model leave alone
notNz == <<asmVars, visVars, debVars, histVars, cbVars, geoVars, cadVars, fetchVars, selVars, authVars, batchVars, loadVars, opVars>>
notAsm == <<nzVars, visVars, debVars, histVars, cbVars, geoVars, cadVars, fetchVars, selVars, authVars, batchVars, loadVars, opVars>>
notVis == <<nzVars, asmVars, debVars, histVars, cbVars, geoVars, cadVars, fetchVars, selVars, authVars, batchVars, loadVars>>
notDeb == <<nzVars, asmVars, visVars, geoVars, cadVars, fetchVars, selVars, authVars, batchVars, loadVars>>
notGeo == <<nzVars, asmVars, visVars, histVars, cbVars, cadVars, fetchVars, selVars, authVars, batchVars, loadVars>>
notCad == <<nzVars, asmVars, visVars, debVars, histVars, cbVars, geoVars, fetchVars, selVars, authVars, batchVars, loadVars>>
notFetch == <<nzVars, asmVars, visVars, debVars, histVars, cbVars, geoVars, cadVars, selVars, authVars, batchVars, loadVars>>
notSel == <<nzVars, asmVars, visVars, histVars, cbVars, geoVars, cadVars, fetchVars, authVars, batchVars, loadVars>>
notAuth == <<nzVars, asmVars, visVars, debVars, histVars, cbVars, geoVars, cadVars, fetchVars, selVars, batchVars, loadVars>>
notBatch == <<nzVars, asmVars, debVars, histVars, cbVars, geoVars, cadVars, fetchVars, selVars, authVars, loadVars>>
notLoad == <<nzVars, asmVars, visVars, debVars, histVars, cbVars, geoVars, cadVars, fetchVars, selVars, authVars, batchVars>>

----------------------------------------------------------------------------
\* Bounds of the model

MaxLen == 4
MaxFeatures == 3
MaxVisFeatures == 2
\* the step of the clock, in milliseconds
TickMs == 100
\* the queries each of the two caches holds at most
MaxCachedQueries == 2
\* the parcels a cadastre source returns at most
MaxParcels == 2
\* the fetches of one query that are followed
MaxFetches == 3
\* the updates queued between two renders
MaxQueuedUpdates == 2
\* elapsed times are counted up to this many ms and no further
LoadCapMs == 600

----------------------------------------------------------------------------
\* Characters and strings

lowerSeq == <<"a","b","c","d","e","f","g","h","i","j","k","l","m",
              "n","o","p","q","r","s","t","u","v","w","x","y","z">>
upperSeq == <<"A","B","C","D","E","F","G","H","I","J","K","L","M",
              "N","O","P","Q","R","S","T","U","V","W","X","Y","Z">>
digitSeq == <<"0","1","2","3","4","5","6","7","8","9">>

Range(s) == {s[i] : i \in DOMAIN s}

LowerChars == Range(lowerSeq)
DigitChars == Range(digitSeq)
\* the characters matched by \s that the model draws from
SpaceChars == {" ", "\t"}
\* the class [a-z0-9_]
IdChars == LowerChars \cup DigitChars \cup {"_"}

\* String.prototype.toLowerCase, one character
ToLowerChar(c) ==
  IF \E i \in DOMAIN upperSeq : upperSeq[i] = c
  THEN lowerSeq[CHOOSE i \in DOMAIN upperSeq : upperSeq[i] = c]
  ELSE c

ToLowerCase(s) == [i \in DOMAIN s |-> ToLowerChar(s[i])]

RECURSIVE ReplaceRuns(_, _, _)
\* s.replace(/X+/g, rep): every maximal run of characters of class cls
\* becomes the single string rep
ReplaceRuns(s, cls, rep) ==
  IF s = <<>> THEN <<>>
  ELSE IF Head(s) \in cls
       THEN IF Len(s) > 1 /\ s[2] \in cls
            THEN ReplaceRuns(Tail(s), cls, rep)
            ELSE rep \o ReplaceRuns(Tail(s), cls, rep)
       ELSE <<Head(s)>> \o ReplaceRuns(Tail(s), cls, rep)

\* s.replace(/[^a-z0-9_]/g, '')
StripNonId(s) == SelectSeq(s, LAMBDA c : c \in IdChars)

\* s.replace(/^_|_$/g, ''): the matches are found left to right and do not
\* overlap, so a one-character "_" is matched once, by the first alternative
TrimUnderscore(s) ==
  LET dropFirst == Len(s) > 0 /\ s[1] = "_"
      dropLast == Len(s) > 0 /\ s[Len(s)] = "_" /\ (Len(s) > 1 \/ ~dropFirst)
      from == IF dropFirst THEN 2 ELSE 1
      to == IF dropLast THEN Len(s) - 1 ELSE Len(s)
  IN  SubSeq(s, from, to)

\* a plausible slip: the trim runs before the collapse of repeated underscores
normalizeTrimFirst(speciesName) ==
  ReplaceRuns(
    TrimUnderscore(StripNonId(
      ReplaceRuns(ToLowerCase(speciesName), SpaceChars, <<"_">>))),
    {"_"}, <<"_">>)

normalizeSpeciesToId(speciesName) ==
  TrimUnderscore(
    ReplaceRuns(
      StripNonId(
        ReplaceRuns(ToLowerCase(speciesName), SpaceChars, <<"_">>)),
      {"_"}, <<"_">>))

----------------------------------------------------------------------------
\* Inputs of the normalization: every string of at most MaxLen characters
\* over an alphabet with one member of each class the expressions tell apart

NzAlphabet == {"Q", "a", "7", " ", "_", "-"}

RECURSIVE StringsUpTo(_, _)
StringsUpTo(alphabet, n) ==
  IF n = 0 THEN {<<>>}
  ELSE LET shorter == StringsUpTo(alphabet, n - 1)
       IN  shorter \cup {<<c>> \o s : c \in alphabet, s \in {t \in shorter : Len(t) = n - 1}}

NzInputs == StringsUpTo(NzAlphabet, MaxLen)

NotRun == <<"<", "not run", ">">>

NzInit ==
  /\ nzIn \in NzInputs
  /\ nzOut = NotRun
  /\ nzOut2 = NotRun
  /\ nzPc = "start"

NzNormalize ==
  /\ nzPc = "start"
  /\ nzOut' = normalizeSpeciesToId(nzIn)
  /\ nzPc' = "once"
  /\ UNCHANGED <<nzIn, nzOut2>>
  /\ UNCHANGED notNz

NzNormalizeAgain ==
  /\ nzPc = "once"
  /\ nzOut2' = normalizeSpeciesToId(nzOut)
  /\ nzPc' = "twice"
  /\ UNCHANGED <<nzIn, nzOut>>
  /\ UNCHANGED notNz

----------------------------------------------------------------------------
\* Forest features, the upstream response and layer assembly (geoService)

\* an absent property / undefined
NoValue == <<"<", "undefined", ">">>

Str_unknown == <<"u","n","k","n","o","w","n">>
Str_forest_ == <<"f","o","r","e","s","t","-">>

QuercusRobur == <<"Q","u","e","r","c","u","s"," ","r","o","b","u","r">>
quercus_robur == <<"q","u","e","r","c","u","s","_","r","o","b","u","r">>
QuercusRoburLower == <<"q","u","e","r","c","u","s"," "," ","r","o","b","u","r">>
FagusSylvatica == <<"F","a","g","u","s"," ","s","y","l","v","a","t","i","c","a">>
fagus_sylvatica == <<"f","a","g","u","s","_","s","y","l","v","a","t","i","c","a">>
NonAsciiLabel == <<"?", "?">>
Chene == <<"C","h","e","n","e">>

\* the values of properties.species the upstream data is drawn from: two
\* labels of the same species that differ in case and spacing, a second
\* species, a label without any [a-z0-9_] character, the empty string and an
\* absent property
SpeciesValues == {QuercusRobur, QuercusRoburLower, FagusSylvatica, NonAsciiLabel, <<>>, NoValue}
CommonNameValues == {Chene, NoValue}

\* opacity: 0.7, in hundredths
ForestOpacityPct == 70

\* JavaScript truthiness of an optional string
Truthy(v) == v /= NoValue /\ v /= <<>>

\* a || b on optional strings
OrElse(a, b) == IF Truthy(a) THEN a ELSE b

RECURSIVE FeaturesOfLen(_)
\* feature collections of exactly n features; fid is the feature's identity
FeaturesOfLen(n) ==
  IF n = 0 THEN {<<>>}
  ELSE {Append(fs, [fid |-> n, species |-> sp, commonName |-> cn]) :
          fs \in FeaturesOfLen(n - 1), sp \in SpeciesValues, cn \in CommonNameValues}

FeatureLists == UNION {FeaturesOfLen(n) : n \in 0..MaxFeatures}

\* what apiClient gives getForestData: a rejected request (error, timeout),
\* a response without data, data without the features key, or a collection
Responses ==
  {[kind |-> "rejected"], [kind |-> "nodata"], [kind |-> "nofeatures"]}
  \cup {[kind |-> "ok", features |-> fs] : fs \in FeatureLists}

\* how a call ends: it returns a value, or it raises
Return(value) == [raised |-> FALSE, value |-> value]
Raised == [raised |-> TRUE, value |-> <<>>]

\* try { ... } catch { return fallback }
tryCatch(outcome, fallback) ==
  IF outcome.raised THEN Return(fallback) ELSE outcome

\* the try block of getForestData: apiClient rejects, or the response has no
\* data or no features and an Error is thrown, or the data is returned
getForestDataTry(resp) ==
  IF resp.kind = "ok" THEN Return(resp.features) ELSE Raised

\* a plausible slip: the failure is passed on to the caller
getForestDataRethrow(resp) ==
  getForestDataTry(resp)

\* getForestData with its catch: the empty FeatureCollection on any failure
getForestDataOutcome(resp) ==
  tryCatch(getForestDataTry(resp), <<>>)

\* getForestData: the features of the returned FeatureCollection. Every
\* failure is caught and gives the empty collection.
getForestData(resp) ==
  getForestDataOutcome(resp).value

\* feature.properties?.species || 'unknown'
speciesNameOf(feature) == OrElse(feature.species, Str_unknown)

RECURSIVE mapKeys(_, _)
\* the keys of layersBySpecies in insertion order
mapKeys(features, acc) ==
  IF features = <<>> THEN acc
  ELSE LET k == speciesNameOf(Head(features))
       IN  mapKeys(Tail(features),
                   IF k \in Range(acc) THEN acc ELSE Append(acc, k))

\* layersBySpecies.get(speciesName)
mapGet(features, speciesName) ==
  SelectSeq(features, LAMBDA f : speciesNameOf(f) = speciesName)

\* the layer pushed for one entry of layersBySpecies
forestLayerOf(speciesName, features) ==
  LET speciesId == normalizeSpeciesToId(speciesName) IN
  [ id |-> Str_forest_ \o speciesId,
    name |-> OrElse(features[1].commonName, speciesName),
    type |-> "forest",
    visible |-> TRUE,
    opacity |-> ForestOpacityPct,
    species |-> speciesId,
    geoData |-> features ]

\* a plausible slip: features are grouped by the normalized id, so that labels
\* with the same id share a layer
getForestLayersByNormalizedId(resp) ==
  LET features == getForestData(resp)
      idOf(f) == normalizeSpeciesToId(speciesNameOf(f))
      first(i) == \A j \in 1..(i - 1) : idOf(features[j]) /= idOf(features[i])
      firsts == SelectSeq([i \in DOMAIN features |-> i], first)
  IN  [n \in DOMAIN firsts |->
         forestLayerOf(speciesNameOf(features[firsts[n]]),
                       SelectSeq(features, LAMBDA f : idOf(f) = idOf(features[firsts[n]])))]

getForestLayers(resp) ==
  LET features == getForestData(resp)
      keys == mapKeys(features, <<>>)
  IN  [n \in DOMAIN keys |-> forestLayerOf(keys[n], mapGet(features, keys[n]))]

\* getForestLayers with its try and catch: [] when anything inside raised
getForestLayersOutcome(resp) ==
  tryCatch(IF getForestDataOutcome(resp).raised THEN Raised
           ELSE Return(getForestLayers(resp)),
           <<>>)

----------------------------------------------------------------------------
\* Client-side species filtering

\* the ids of the species catalog a selection is made of
CatalogIds == {quercus_robur, fagus_sylvatica}

MaxSelected == 2

\* filters.treeSpecies is optional: undefined, or an array of catalog ids
UndefinedSelection == [present |-> FALSE, items |-> <<>>]
ArrayOf(items) == [present |-> TRUE, items |-> items]
Selections == {UndefinedSelection} \cup {ArrayOf(a) : a \in StringsUpTo(CatalogIds, MaxSelected)}

\* !filters.treeSpecies?.length
noSelection(treeSpecies) == ~treeSpecies.present \/ Len(treeSpecies.items) = 0

\* filters.treeSpecies.includes(x)
includes(treeSpecies, x) == \E i \in DOMAIN treeSpecies.items : treeSpecies.items[i] = x

\* a plausible slip: an empty selection shows nothing
hookFilterStrict(forestLayers, treeSpecies) ==
  IF ~treeSpecies.present THEN forestLayers
  ELSE SelectSeq(forestLayers,
                 LAMBDA layer : includes(treeSpecies, OrElse(layer.species, <<>>)))

\* useGeoLayers: filteredForestLayers
hookFilter(forestLayers, treeSpecies) ==
  IF noSelection(treeSpecies) THEN forestLayers
  ELSE SelectSeq(forestLayers,
                 LAMBDA layer : includes(treeSpecies, OrElse(layer.species, <<>>)))

\* LayerRenderer: filteredForestLayers
rendererFilter(forestLayers, treeSpecies) ==
  SelectSeq(forestLayers,
            LAMBDA layer :
              \/ noSelection(treeSpecies)
              \/ Truthy(layer.species) /\ includes(treeSpecies, layer.species))

AsmIdle ==
  /\ fcIn = [kind |-> "nodata"]
  /\ selIn = UndefinedSelection
  /\ asmOut = <<>>
  /\ hookOut = <<>>
  /\ rendOut = <<>>
  /\ asmPc = "idle"

AsmInit ==
  /\ fcIn \in Responses
  /\ selIn = UndefinedSelection
  /\ asmOut = <<>>
  /\ hookOut = <<>>
  /\ rendOut = <<>>
  /\ asmPc = "start"

AsmGetForestLayers ==
  /\ asmPc = "start"
  /\ asmOut' = getForestLayers(fcIn)
  /\ asmPc' = "assembled"
  /\ UNCHANGED <<fcIn, selIn, hookOut, rendOut>>
  /\ UNCHANGED notAsm

\* the user's selection is made, and the hook filters by it
AsmHookFilter ==
  /\ asmPc = "assembled"
  /\ \E treeSpecies \in Selections :
       /\ selIn' = treeSpecies
       /\ hookOut' = hookFilter(asmOut, treeSpecies)
  /\ asmPc' = "filtered"
  /\ UNCHANGED <<fcIn, asmOut, rendOut>>
  /\ UNCHANGED notAsm

AsmRendererFilter ==
  /\ asmPc = "filtered"
  /\ rendOut' = rendererFilter(asmOut, selIn)
  /\ asmPc' = "rendered"
  /\ UNCHANGED <<fcIn, selIn, asmOut, hookOut>>
  /\ UNCHANGED notAsm


OpIdle ==
  /\ lastOp = "init"
  /\ lastArg = <<>>

VisIdle ==
  /\ fetchedForestLayers = <<>>
  /\ visibleLayerIds = {}
  /\ syncPending = FALSE
  /\ hiddenByUser = {}
  /\ prevVisible = {}

NzIdle ==
  /\ nzIn = <<>>
  /\ nzOut = NotRun
  /\ nzOut2 = NotRun
  /\ nzPc = "idle"


----------------------------------------------------------------------------
\* Visibility tracking (useMapsPage)

layerIds(layers) == {layers[n].id : n \in DOMAIN layers}

\* a plausible slip: the fetched layer's own flag is handed to the renderer
forestLayersFromFetchFlag(fetched, visible) ==
  [n \in DOMAIN fetched |-> [fetched[n] EXCEPT !.visible = fetched[n].visible]]

\* the forestLayers memo: fetched layers combined with the visibility state
forestLayersMemo(fetched, visible) ==
  [n \in DOMAIN fetched |-> [fetched[n] EXCEPT !.visible = fetched[n].id \in visible]]

\* a plausible slip: new ids are added, vanished ids are never removed
syncAddOnly(prev, fetched) ==
  prev \cup layerIds(fetched)

\* the updater of the sync effect. JSON.stringify of the two sorted id arrays
\* is equal exactly when the two id sets are equal.
syncVisibleLayerIds(prev, fetched) ==
  LET fetchedIds == layerIds(fetched) IN
  IF prev = fetchedIds THEN prev
  ELSE LET withNew == prev \cup {id \in fetchedIds : id \notin prev}
       IN  {id \in withNew : id \in fetchedIds}

\* the updater of toggleLayer
toggleUpdater(prev, layerId) ==
  IF layerId \in prev THEN prev \ {layerId} ELSE prev \cup {layerId}

\* the forest data behind the layer lists useGeoLayers hands over
VisSpeciesValues == {QuercusRobur, QuercusRoburLower, FagusSylvatica, NoValue}

RECURSIVE VisFeaturesOfLen(_)
VisFeaturesOfLen(n) ==
  IF n = 0 THEN {<<>>}
  ELSE {Append(fs, [fid |-> n, species |-> sp, commonName |-> NoValue]) :
          fs \in VisFeaturesOfLen(n - 1), sp \in VisSpeciesValues}

VisResponses ==
  {[kind |-> "ok", features |-> fs] :
     fs \in UNION {VisFeaturesOfLen(n) : n \in 0..MaxVisFeatures}}

\* the state after the first render; the sync effect runs on mount
VisInit ==
  /\ fetchedForestLayers = <<>>
  /\ visibleLayerIds = {}
  /\ syncPending = TRUE
  /\ hiddenByUser = {}
  /\ prevVisible = {}

\* useGeoLayers hands over a new layer list (a fetch for the current key has
\* resolved, or the key has changed): the sync effect is scheduled
VisFetchedLayersChange ==
  /\ \E resp \in VisResponses : fetchedForestLayers' = getForestLayers(resp)
  /\ syncPending' = TRUE
  /\ prevVisible' = visibleLayerIds
  /\ lastOp' = "fetchedLayersChange"
  /\ lastArg' = <<>>
  /\ UNCHANGED <<visibleLayerIds, hiddenByUser>>
  /\ UNCHANGED notVis

\* the sync effect runs with the layer list of the last render
VisSyncEffect ==
  /\ syncPending
  /\ visibleLayerIds' = syncVisibleLayerIds(visibleLayerIds, fetchedForestLayers)
  /\ syncPending' = FALSE
  /\ hiddenByUser' = hiddenByUser \cap layerIds(fetchedForestLayers)
  /\ prevVisible' = visibleLayerIds
  /\ lastOp' = "syncEffect"
  /\ lastArg' = <<>>
  /\ UNCHANGED fetchedForestLayers
  /\ UNCHANGED notVis

\* the user toggles one of the layers listed; the effects of a committed
\* render have run before the next user event is handled
VisToggleLayer ==
  /\ ~syncPending
  /\ \E layerId \in layerIds(fetchedForestLayers) :
       /\ visibleLayerIds' = toggleUpdater(visibleLayerIds, layerId)
       /\ hiddenByUser' = IF layerId \in visibleLayerIds
                          THEN hiddenByUser \cup {layerId}
                          ELSE hiddenByUser \ {layerId}
       /\ lastArg' = layerId
  /\ prevVisible' = visibleLayerIds
  /\ lastOp' = "toggleLayer"
  /\ UNCHANGED <<fetchedForestLayers, syncPending>>
  /\ UNCHANGED notVis

\* loadInitialLayers (called by handleMapLoad): every fetched layer visible
VisLoadInitialLayers ==
  /\ ~syncPending
  /\ visibleLayerIds' = layerIds(fetchedForestLayers)
  /\ hiddenByUser' = {}
  /\ prevVisible' = visibleLayerIds
  /\ lastOp' = "loadInitialLayers"
  /\ lastArg' = <<>>
  /\ UNCHANGED <<fetchedForestLayers, syncPending>>
  /\ UNCHANGED notVis

----------------------------------------------------------------------------
\* Viewport, filters and the derived query (useMapsPage, useGeoLayers)

\* useDebounce(viewState, 300)
DebounceDelayMs == 300
\* limit: 100
QueryLimit == 100
\* viewState.zoom >= 14, in tenths of a zoom level
MinCadastreZoom10 == 140

\* latitude and longitude in 1/10000 degree, zoom in tenths; bearing and pitch
\* are not read by useGeoLayers
InitialViewState == [latitude |-> 462276, longitude |-> 22137, zoom |-> 60]

\* the zoom levels the map is moved to: 6, 13.6 and 14.4
ZoomValues == {60, 136, 144}
Viewports == {[InitialViewState EXCEPT !.zoom = z] : z \in ZoomValues}

\* createDefaultFilters, with the optional region, department and commune
createDefaultFilters ==
  [region |-> NoValue, department |-> NoValue, commune |-> NoValue,
   showCadastre |-> FALSE, treeSpecies |-> ArrayOf(<<>>)]

\* the selections the species selector is set to
PageSelections == {ArrayOf(<<>>), ArrayOf(<<quercus_robur>>)}

\* a plausible slip: Math.floor in place of Math.round
MathFloor10(x10) == x10 \div 10

\* Math.round of a non-negative number given in tenths
MathRound10(x10) == (x10 + 5) \div 10

\* mapUtils: getOptimizedZoomLevel
getOptimizedZoomLevel(currentZoom10) == MathRound10(currentZoom10)

RECURSIVE Pow2(_)
Pow2(n) == IF n = 0 THEN 1 ELSE 2 * Pow2(n - 1)

\* mapUtils: calculateBoundingBox, for a whole zoom level up to 16, where the
\* deltas 0.01 * 2^(14 - zoom) and 0.015 * 2^(14 - zoom) are whole numbers of
\* 1/10000 degree. center has lat and lng; the zoom is in tenths.
calculateBoundingBox(center, zoom10) ==
  LET zoom == zoom10 \div 10
      deltaLat == IF zoom <= 14 THEN 100 * Pow2(14 - zoom) ELSE 100 \div Pow2(zoom - 14)
      deltaLng == IF zoom <= 14 THEN 150 * Pow2(14 - zoom) ELSE 150 \div Pow2(zoom - 14)
  IN  <<center.lng - deltaLng, center.lat - deltaLat,
        center.lng + deltaLng, center.lat + deltaLat>>

\* a plausible slip: the species selection stays in the query
makeGeoQueryWithSpecies(debounced, f) ==
  [zoom |-> MathRound10(debounced.zoom),
   bbox |-> <<debounced.longitude - 5000, debounced.latitude - 5000,
              debounced.longitude + 5000, debounced.latitude + 5000>>,
   filters |-> f,
   limit |-> QueryLimit]

\* the geoQuery memo
makeGeoQuery(debounced, f) ==
  [zoom |-> MathRound10(debounced.zoom),
   bbox |-> <<debounced.longitude - 5000, debounced.latitude - 5000,
              debounced.longitude + 5000, debounced.latitude + 5000>>,
   filters |-> [f EXCEPT !.treeSpecies = UndefinedSelection],
   limit |-> QueryLimit]

geoQuery == makeGeoQuery(debouncedViewState, filters)

----------------------------------------------------------------------------
\* useDebounce and useDebounceCallback

Max0(x) == IF x < 0 THEN 0 ELSE x
Min(a, b) == IF a < b THEN a ELSE b

\* a plausible slip: the effect has no cleanup, earlier timeouts stay pending
debounceEffectNoCleanup(timers, value, delay, sameObject) ==
  timers \cup {[remaining |-> delay, value |-> value, sameObject |-> sameObject]}

\* the effect of useDebounce on a change of [value, delay]: the cleanup of the
\* previous run clears its timeout, then a new timeout is set. sameObject
\* tells that value is the very object held as debouncedValue.
debounceEffect(timers, value, delay, sameObject) ==
  {[remaining |-> delay, value |-> value, sameObject |-> sameObject]}

\* the pending timeouts after dt milliseconds
advance(timers, dt) ==
  {[t EXCEPT !.remaining = Max0(t.remaining - dt)] : t \in timers}

\* the debounced function made by useDebounceCallback: clearTimeout, setTimeout
debouncedCallback(timers, args, delay) ==
  {[remaining |-> delay, args |-> args]}

CbArgs == {"a", "b"}
NoArgs == "none"

\* after the first render of the page: the effect of useDebounce has set a
\* timeout for the initial viewState, the object debouncedValue already holds
DebInit ==
  /\ mounted = TRUE
  /\ viewState = InitialViewState
  /\ debouncedViewState = InitialViewState
  /\ debTimers = debounceEffect({}, InitialViewState, DebounceDelayMs, TRUE)
  /\ filters = createDefaultFilters
  /\ quietFor = 0
  /\ burstLen = 0
  /\ derivations = 0
  /\ filtersHeld = TRUE
  /\ emittedAfterUnmount = FALSE

DebIdle ==
  /\ mounted = FALSE
  /\ viewState = InitialViewState
  /\ debouncedViewState = InitialViewState
  /\ debTimers = {}
  /\ filters = createDefaultFilters
  /\ quietFor = 0
  /\ burstLen = 0
  /\ derivations = 0
  /\ filtersHeld = TRUE
  /\ emittedAfterUnmount = FALSE

CbInit ==
  /\ cbMounted = TRUE
  /\ cbTimers = {}
  /\ cbInvokedWith = NoArgs
  /\ calledAfterUnmount = FALSE

CbIdle ==
  /\ cbMounted = FALSE
  /\ cbTimers = {}
  /\ cbInvokedWith = NoArgs
  /\ calledAfterUnmount = FALSE

\* a burst is under way: a viewport change waits for its emission
burstOpen == \E t \in debTimers : ~t.sameObject
\* the next viewport change comes less than the delay after the last one
burstContinues == burstOpen /\ quietFor < DebounceDelayMs

\* handleViewStateChange / setViewState: the map hands over a new viewState
\* object, and the effect of useDebounce runs again
viewStateChanges(newViewState) ==
  /\ mounted
  /\ viewState' = newViewState
  /\ debTimers' = debounceEffect(debTimers, newViewState, DebounceDelayMs, FALSE)
  /\ UNCHANGED <<mounted, debouncedViewState, filters>>

\* history of a viewport change
viewStateChangeNoted ==
  /\ quietFor' = 0
  /\ burstLen' = IF burstContinues THEN 2 ELSE 1
  /\ derivations' = IF burstContinues THEN derivations ELSE 0
  /\ filtersHeld' = IF burstContinues THEN filtersHeld ELSE TRUE
  /\ UNCHANGED emittedAfterUnmount

\* a timeout of useDebounce fires, waited milliseconds from now:
\* setDebouncedValue(value). Setting the object the state already holds
\* renders nothing and derives no query.
debounceFires(t, waited) ==
  /\ t \in debTimers
  /\ t.remaining <= waited
  /\ debTimers' = advance(debTimers \ {t}, waited)
  /\ debouncedViewState' = t.value
  /\ UNCHANGED <<mounted, viewState, filters>>

debounceFireNoted(t) ==
  /\ derivations' = IF t.sameObject THEN derivations ELSE Min(derivations + 1, 2)
  /\ emittedAfterUnmount' = (emittedAfterUnmount \/ ~mounted)
  /\ UNCHANGED <<quietFor, burstLen, filtersHeld>>

\* setFilters with another species selection or another showCadastre
filtersChange(treeSpecies, showCadastre) ==
  /\ mounted
  /\ filters' = [filters EXCEPT !.treeSpecies = treeSpecies, !.showCadastre = showCadastre]
  /\ filters' /= filters
  /\ UNCHANGED <<mounted, viewState, debouncedViewState, debTimers>>

filtersChangeNoted ==
  /\ derivations' = Min(derivations + 1, 2)
  /\ filtersHeld' = FALSE
  /\ UNCHANGED <<quietFor, burstLen, emittedAfterUnmount>>

\* dt milliseconds pass for the timeouts of useDebounce
timePasses(dt) ==
  /\ debTimers' = advance(debTimers, dt)
  /\ UNCHANGED <<mounted, viewState, debouncedViewState, filters>>

timePassedNoted(dt) ==
  /\ quietFor' = Min(quietFor + dt, DebounceDelayMs)
  /\ UNCHANGED <<burstLen, derivations, filtersHeld, emittedAfterUnmount>>

\* the page is unmounted: the cleanup of the effect clears the timeout
pageUnmounts ==
  /\ mounted
  /\ mounted' = FALSE
  /\ debTimers' = {}
  /\ UNCHANGED <<viewState, debouncedViewState, filters>>

DebViewStateChange ==
  /\ \E v \in Viewports :
       /\ viewStateChanges(v)
       /\ lastArg' = <<v.zoom>>
  /\ viewStateChangeNoted
  /\ lastOp' = "handleViewStateChange"
  /\ UNCHANGED cbVars
  /\ UNCHANGED notDeb

DebFire ==
  /\ \E t \in debTimers : debounceFires(t, 0) /\ debounceFireNoted(t)
  /\ lastOp' = "debounceFire"
  /\ lastArg' = <<>>
  /\ UNCHANGED cbVars
  /\ UNCHANGED notDeb

DebSetFilters ==
  /\ \E sel \in PageSelections, show \in BOOLEAN : filtersChange(sel, show)
  /\ filtersChangeNoted
  /\ lastOp' = "setFilters"
  /\ lastArg' = <<>>
  /\ UNCHANGED cbVars
  /\ UNCHANGED notDeb

DebTick ==
  /\ timePasses(TickMs)
  /\ timePassedNoted(TickMs)
  /\ cbTimers' = advance(cbTimers, TickMs)
  /\ UNCHANGED <<cbMounted, cbInvokedWith, calledAfterUnmount>>
  /\ lastOp' = "tick"
  /\ lastArg' = <<>>
  /\ UNCHANGED notDeb

DebUnmount ==
  /\ pageUnmounts
  /\ lastOp' = "unmount"
  /\ lastArg' = <<>>
  /\ UNCHANGED histVars
  /\ UNCHANGED cbVars
  /\ UNCHANGED notDeb

\* the component calls the debounced function
CbCall ==
  /\ cbMounted
  /\ \E args \in CbArgs :
       /\ cbTimers' = debouncedCallback(cbTimers, args, DebounceDelayMs)
       /\ lastArg' = <<args>>
  /\ lastOp' = "debouncedCallback"
  /\ UNCHANGED <<cbMounted, cbInvokedWith, calledAfterUnmount>>
  /\ UNCHANGED <<debVars, histVars>>
  /\ UNCHANGED notDeb

\* a timeout set by the debounced function fires: callback(...args)
CbFire ==
  /\ \E t \in cbTimers :
       /\ t.remaining = 0
       /\ cbTimers' = cbTimers \ {t}
       /\ cbInvokedWith' = t.args
  /\ calledAfterUnmount' = (calledAfterUnmount \/ ~cbMounted)
  /\ lastOp' = "callbackFire"
  /\ lastArg' = <<>>
  /\ UNCHANGED cbMounted
  /\ UNCHANGED <<debVars, histVars>>
  /\ UNCHANGED notDeb

\* the component is unmounted: the cleanup of the effect of
\* useDebounceCallback is empty, the timeout stays pending
CbUnmount ==
  /\ cbMounted
  /\ cbMounted' = FALSE
  /\ lastOp' = "callbackUnmount"
  /\ lastArg' = <<>>
  /\ UNCHANGED <<cbTimers, cbInvokedWith, calledAfterUnmount>>
  /\ UNCHANGED <<debVars, histVars>>
  /\ UNCHANGED notDeb

----------------------------------------------------------------------------
\* The two queries of useGeoLayers

\* the forest queryKey
forestQueryKey(query) ==
  [scope |-> "geoLayers", kind |-> "forest",
   query |-> [query EXCEPT !.filters.treeSpecies = UndefinedSelection]]

\* the cadastre queryKey
cadastreQueryKey(query) ==
  [scope |-> "geoLayers", kind |-> "cadastre", query |-> query]

\* getForestData: query.filters?.treeSpecies?.[0], sent as the species
\* parameter when truthy
forestRequestSpecies(query) ==
  LET treeSpecies == query.filters.treeSpecies IN
  IF treeSpecies.present /\ Len(treeSpecies.items) > 0 /\ Truthy(treeSpecies.items[1])
  THEN treeSpecies.items[1]
  ELSE NoValue

\* the request the forest queryFn sends: GET /geo/forest
forestRequest(query) ==
  [kind |-> "forest", key |-> forestQueryKey(query), species |-> forestRequestSpecies(query)]

\* the cadastre queryFn: no species parameter
cadastreRequest(query) ==
  [kind |-> "cadastre", key |-> cadastreQueryKey(query), species |-> NoValue]

\* opacity: 0.4, in percent
CadastreOpacityPct == 40

\* getMockCadastreData: one parcel without owner; the geometry is named, its
\* coordinates are not read by the assembly
getMockCadastreData ==
  << [id |-> "parcel_1", reference |-> "AB0123", geometry |-> "polygon_1",
      area10 |-> 25, owner |-> NoValue, landUse |-> "Foret"] >>

\* the feature made of a parcel
parcelFeature(parcel) ==
  [type |-> "Feature",
   properties |-> [id |-> parcel.id, type |-> "cadastre",
                   parcelNumber |-> parcel.reference, area10 |-> parcel.area10,
                   landUse |-> parcel.landUse, owner |-> parcel.owner],
   geometry |-> parcel.geometry]

\* the one layer that holds all parcels
cadastreLayerOf(features, query) ==
  [id |-> "cadastre-parcels", name |-> "Cadastral parcels", type |-> "cadastre",
   visible |-> TRUE, opacity |-> CadastreOpacityPct,
   commune |-> query.filters.commune,
   geoData |-> [type |-> "FeatureCollection", features |-> features]]

\* a plausible slip: a layer is made of zero parcels too
getCadastreLayersAlways(cadastreData, query) ==
  << cadastreLayerOf([i \in DOMAIN cadastreData |-> parcelFeature(cadastreData[i])], query) >>

\* getCadastreLayers, of the parcels getCadastreData returned
getCadastreLayers(cadastreData, query) ==
  LET features == [i \in DOMAIN cadastreData |-> parcelFeature(cadastreData[i])]
  IN  IF Len(features) = 0 THEN <<>>
      ELSE << cadastreLayerOf(features, query) >>

\* the parcels a cadastre source returns
ParcelValues ==
  {[id |-> i, reference |-> "AB0123", geometry |-> g, area10 |-> 25,
    owner |-> o, landUse |-> "Foret"] :
     i \in {"parcel_1", "parcel_2"}, g \in {"polygon_1", "polygon_2"},
     o \in {NoValue, <<"D", "u">>}}

RECURSIVE ParcelsOfLen(_)
ParcelsOfLen(n) ==
  IF n = 0 THEN {<<>>}
  ELSE {Append(ps, p) : ps \in ParcelsOfLen(n - 1), p \in ParcelValues}

ParcelLists == UNION {ParcelsOfLen(n) : n \in 0..MaxParcels}

CadInit ==
  /\ cadIn \in ParcelLists
  /\ cadOut = <<>>
  /\ cadPc = "start"

CadIdle ==
  /\ cadIn = <<>>
  /\ cadOut = <<>>
  /\ cadPc = "idle"

CadGetCadastreLayers ==
  /\ cadPc = "start"
  /\ cadOut' = getCadastreLayers(cadIn, makeGeoQuery(InitialViewState, createDefaultFilters))
  /\ cadPc' = "done"
  /\ UNCHANGED cadIn
  /\ UNCHANGED opVars
  /\ UNCHANGED notCad

\* what the forest endpoint answers on the page
PageResponses ==
  {[kind |-> "ok",
    features |-> << [fid |-> 1, species |-> QuercusRobur, commonName |-> Chene],
                    [fid |-> 2, species |-> FagusSylvatica, commonName |-> NoValue] >>]}

\* enabled: !!viewState && !mapError
forestEnabled == mounted /\ ~mapError

\* a plausible slip: the gate without the zoom test
cadastreEnabledAnyZoom == forestEnabled /\ filters.showCadastre

\* enabled: enabled && filters.showCadastre && viewState.zoom >= 14
cadastreEnabled ==
  forestEnabled /\ filters.showCadastre /\ viewState.zoom >= MinCadastreZoom10

forestKey == forestQueryKey(geoQuery)
cadastreKey == cadastreQueryKey(geoQuery)

EmptyCache == [k \in {} |-> k]
FetchingEntry == [hasData |-> FALSE, data |-> <<>>, stale |-> FALSE, fetching |-> TRUE]

\* a plausible slip: data once fetched never counts as stale
isStaleNever(cache, key) ==
  \/ key \notin DOMAIN cache
  \/ ~cache[key].hasData

\* a query without data, or with data older than staleTime, is stale
isStale(cache, key) ==
  \/ key \notin DOMAIN cache
  \/ ~cache[key].hasData
  \/ cache[key].stale

isFetching(cache, key) == key \in DOMAIN cache /\ cache[key].fetching

\* useQuery on a render: the observer fetches when it is enabled, its query
\* changed or it was just enabled, the query is stale, and no fetch of that
\* query is in flight. Focus and mount refetches are off.
shouldFetch(cache, key, enabled, prevKey, prevEnabled) ==
  /\ enabled
  /\ key /= prevKey \/ ~prevEnabled
  /\ isStale(cache, key)
  /\ ~isFetching(cache, key)

startFetch(cache, key) ==
  IF key \in DOMAIN cache
  THEN [cache EXCEPT ![key].fetching = TRUE]
  ELSE (key :> FetchingEntry) @@ cache

observe(cache, key, enabled, prevKey, prevEnabled) ==
  IF shouldFetch(cache, key, enabled, prevKey, prevEnabled)
  THEN startFetch(cache, key)
  ELSE cache

\* a plausible slip: while the current query has no data, the data of
\* another query is shown
forestLayersOfAnyKey ==
  IF forestKey \in DOMAIN forestCache /\ forestCache[forestKey].hasData
  THEN forestCache[forestKey].data
  ELSE IF \E k \in DOMAIN forestCache : forestCache[k].hasData
       THEN forestCache[CHOOSE k \in DOMAIN forestCache : forestCache[k].hasData].data
       ELSE <<>>

\* data: forestLayers = []
forestLayers == IF forestKey \in DOMAIN forestCache THEN forestCache[forestKey].data ELSE <<>>
\* data: cadastreLayers = []
cadastreLayers ==
  IF cadastreKey \in DOMAIN cadastreCache THEN cadastreCache[cadastreKey].data ELSE <<>>

\* useGeoLayers: the forestLayers it returns
filteredForestLayers == hookFilter(forestLayers, filters.treeSpecies)

\* mapUtils: shouldShowCadastreAtZoom, the zoom in tenths
shouldShowCadastreAtZoom(zoom10) == zoom10 >= MinCadastreZoom10

\* LayerRenderer: shouldShowCadastre, and the cadastre layers it renders
shouldShowCadastre == filters.showCadastre /\ shouldShowCadastreAtZoom(viewState.zoom)
renderedCadastreLayers == IF shouldShowCadastre THEN cadastreLayers ELSE <<>>

\* the render that follows a state change: both observers take their new
\* options
queriesObserve ==
  /\ forestCache' = observe(forestCache, forestKey', forestEnabled', forestKey, forestEnabled)
  /\ cadastreCache' =
       observe(cadastreCache, cadastreKey', cadastreEnabled', cadastreKey, cadastreEnabled)
  /\ justIssued' =
       (IF shouldFetch(forestCache, forestKey', forestEnabled', forestKey, forestEnabled)
        THEN {forestRequest(geoQuery')} ELSE {})
       \cup
       (IF shouldFetch(cadastreCache, cadastreKey', cadastreEnabled',
                       cadastreKey, cadastreEnabled)
        THEN {cadastreRequest(geoQuery')} ELSE {})
  /\ Cardinality(DOMAIN forestCache') <= MaxCachedQueries
  /\ Cardinality(DOMAIN cadastreCache') <= MaxCachedQueries

\* after the first render of the page: the forest observer has mounted
\* enabled on a query without data, the cadastre observer disabled
GeoInit ==
  /\ mapError = FALSE
  /\ forestCache =
       (forestQueryKey(makeGeoQuery(InitialViewState, createDefaultFilters)) :> FetchingEntry)
  /\ cadastreCache = EmptyCache
  /\ justIssued = {forestRequest(makeGeoQuery(InitialViewState, createDefaultFilters))}

GeoIdle ==
  /\ mapError = FALSE
  /\ forestCache = EmptyCache
  /\ cadastreCache = EmptyCache
  /\ justIssued = {}

\* a step of the page re-renders useGeoLayers: both observers take their
\* new options
viewStateStep(v) ==
  /\ viewStateChanges(v)
  /\ UNCHANGED mapError
  /\ queriesObserve

\* the debounce delay passes and the timeout fires
debounceFireStep(t) ==
  /\ debounceFires(t, DebounceDelayMs)
  /\ UNCHANGED mapError
  /\ queriesObserve

\* setFilters(prev => ({...prev, showCadastre}))
showCadastreStep ==
  /\ filtersChange(filters.treeSpecies, ~filters.showCadastre)
  /\ UNCHANGED mapError
  /\ queriesObserve

\* a forest queryFn resolves: getForestLayers never rejects
forestResolveStep(key, resp) ==
  /\ forestCache[key].fetching
  /\ forestCache' = [forestCache EXCEPT ![key] =
       [hasData |-> TRUE, data |-> getForestLayers(resp),
        stale |-> FALSE, fetching |-> FALSE]]
  /\ justIssued' = {}
  /\ UNCHANGED <<mapError, cadastreCache>>
  /\ UNCHANGED debVars

\* a cadastre queryFn resolves
cadastreResolveStep(key) ==
  /\ cadastreCache[key].fetching
  /\ cadastreCache' = [cadastreCache EXCEPT ![key] =
       [hasData |-> TRUE, data |-> getCadastreLayers(getMockCadastreData, key.query),
        stale |-> FALSE, fetching |-> FALSE]]
  /\ justIssued' = {}
  /\ UNCHANGED <<mapError, forestCache>>
  /\ UNCHANGED debVars

\* staleTime passes: the data held goes stale, the forest data after 5
\* minutes, the cadastre data after 10. No timeout of 300 ms is still
\* pending after minutes.
staleTimeStep(both) ==
  /\ forestCache' = [k \in DOMAIN forestCache |->
       [forestCache[k] EXCEPT !.stale = forestCache[k].hasData]]
  /\ cadastreCache' = [k \in DOMAIN cadastreCache |->
       [cadastreCache[k] EXCEPT !.stale = @ \/ (both /\ cadastreCache[k].hasData)]]
  /\ <<forestCache', cadastreCache'>> /= <<forestCache, cadastreCache>>
  /\ debTimers = {}
  /\ UNCHANGED debVars
  /\ justIssued' = {}
  /\ UNCHANGED mapError

GeoViewStateChange ==
  /\ \E v \in Viewports : viewStateStep(v)
  /\ UNCHANGED opVars
  /\ UNCHANGED notGeo

GeoDebounceFire ==
  /\ \E t \in debTimers : debounceFireStep(t)
  /\ UNCHANGED opVars
  /\ UNCHANGED notGeo

\* setFilters(prev => ({...prev, treeSpecies}))
GeoSetTreeSpecies ==
  /\ \E sel \in PageSelections : filtersChange(sel, filters.showCadastre)
  /\ UNCHANGED mapError
  /\ queriesObserve
  /\ UNCHANGED opVars
  /\ UNCHANGED notGeo

GeoSetShowCadastre ==
  /\ showCadastreStep
  /\ UNCHANGED opVars
  /\ UNCHANGED notGeo

\* setMapError with a message, or with null
GeoSetMapError ==
  /\ mounted
  /\ mapError' = ~mapError
  /\ UNCHANGED debVars
  /\ queriesObserve
  /\ UNCHANGED opVars
  /\ UNCHANGED notGeo

GeoForestResolves ==
  /\ \E key \in DOMAIN forestCache, resp \in PageResponses : forestResolveStep(key, resp)
  /\ UNCHANGED opVars
  /\ UNCHANGED notGeo

GeoCadastreResolves ==
  /\ \E key \in DOMAIN cadastreCache : cadastreResolveStep(key)
  /\ UNCHANGED opVars
  /\ UNCHANGED notGeo

GeoStaleTimePasses ==
  /\ \E both \in BOOLEAN : staleTimeStep(both)
  /\ UNCHANGED opVars
  /\ UNCHANGED notGeo

\* the same steps of the page, the operation of each step recorded
QryViewStateChange ==
  /\ \E v \in Viewports : viewStateStep(v)
  /\ lastOp' = "handleViewStateChange"
  /\ lastArg' = <<>>
  /\ UNCHANGED notGeo

\* recorded with the zoom debounced before
QryDebounceFire ==
  /\ \E t \in debTimers : debounceFireStep(t)
  /\ lastOp' = "debounceFire"
  /\ lastArg' = <<debouncedViewState.zoom>>
  /\ UNCHANGED notGeo

QrySetShowCadastre ==
  /\ showCadastreStep
  /\ lastOp' = "setShowCadastre"
  /\ lastArg' = <<>>
  /\ UNCHANGED notGeo

\* recorded with the key of the query that resolved
QryForestResolves ==
  /\ \E key \in DOMAIN forestCache, resp \in PageResponses :
       /\ forestResolveStep(key, resp)
       /\ lastArg' = <<key>>
  /\ lastOp' = "forestResolves"
  /\ UNCHANGED notGeo

QryCadastreResolves ==
  /\ \E key \in DOMAIN cadastreCache :
       /\ cadastreResolveStep(key)
       /\ lastArg' = <<key>>
  /\ lastOp' = "cadastreResolves"
  /\ UNCHANGED notGeo

QryStaleTimePasses ==
  /\ \E both \in BOOLEAN : staleTimeStep(both)
  /\ lastOp' = "staleTimePasses"
  /\ lastArg' = <<>>
  /\ UNCHANGED notGeo

----------------------------------------------------------------------------
\* One fetch of a query: queryFn, retries, and what the hook exposes

\* retry: 2
ForestRetry == 2
\* retry: 1
CadastreRetry == 1

\* what the forest endpoint answers to one request
FetchResponses ==
  {[kind |-> "rejected"], [kind |-> "nodata"], [kind |-> "nofeatures"]} \cup VisResponses

\* the cadastre queryFn: getCadastreData returns the mock data, nothing is
\* requested upstream; getCadastreLayers has a try and catch of its own
cadastreQueryFnOutcome ==
  tryCatch(Return(getCadastreLayers(getMockCadastreData,
                                    makeGeoQuery(InitialViewState, createDefaultFilters))),
           <<>>)

\* useQuery after an attempt of the queryFn: a rejection is retried while
\* failureCount is below retry and then becomes the error of the query; a
\* resolved value becomes its data
afterAttempt(outcome, retry) ==
  IF outcome.raised
  THEN IF fqFailureCount < retry
       THEN /\ fqFailureCount' = fqFailureCount + 1
            /\ UNCHANGED <<fqStatus, fqData, fqError>>
       ELSE /\ fqStatus' = "error"
            /\ fqError' = TRUE
            /\ UNCHANGED <<fqFailureCount, fqData>>
  ELSE /\ fqStatus' = "success"
       /\ fqData' = outcome.value
       /\ fqError' = FALSE
       /\ UNCHANGED fqFailureCount

FetchInit ==
  /\ fqKind \in {"forest", "cadastre"}
  /\ fqFetches = 1
  /\ fqStatus = "fetching"
  /\ fqFailureCount = 0
  /\ fqUpstreamRequests = 0
  /\ fqUpstreamFailures = 0
  /\ fqData = <<>>
  /\ fqError = FALSE

FetchIdle ==
  /\ fqKind = "forest"
  /\ fqFetches = 0
  /\ fqStatus = "idle"
  /\ fqFailureCount = 0
  /\ fqUpstreamRequests = 0
  /\ fqUpstreamFailures = 0
  /\ fqData = <<>>
  /\ fqError = FALSE

\* the forest queryFn runs once: getForestLayers sends one request
FetchForestAttempt ==
  /\ fqKind = "forest"
  /\ fqStatus = "fetching"
  /\ \E resp \in FetchResponses :
       /\ fqUpstreamRequests' = fqUpstreamRequests + 1
       /\ fqUpstreamFailures' = fqUpstreamFailures + (IF resp.kind = "ok" THEN 0 ELSE 1)
       /\ afterAttempt(getForestLayersOutcome(resp), ForestRetry)
  /\ UNCHANGED <<fqKind, fqFetches>>
  /\ UNCHANGED opVars
  /\ UNCHANGED notFetch

\* the cadastre queryFn runs once
FetchCadastreAttempt ==
  /\ fqKind = "cadastre"
  /\ fqStatus = "fetching"
  /\ afterAttempt(cadastreQueryFnOutcome, CadastreRetry)
  /\ UNCHANGED <<fqKind, fqFetches, fqUpstreamRequests, fqUpstreamFailures>>
  /\ UNCHANGED opVars
  /\ UNCHANGED notFetch

\* the query is fetched again (it went stale and its observer asked for it)
FetchAgain ==
  /\ fqStatus \in {"success", "error"}
  /\ fqFetches < MaxFetches
  /\ fqFetches' = fqFetches + 1
  /\ fqStatus' = "fetching"
  /\ fqFailureCount' = 0
  /\ fqUpstreamRequests' = 0
  /\ fqUpstreamFailures' = 0
  /\ UNCHANGED <<fqKind, fqData, fqError>>
  /\ UNCHANGED opVars
  /\ UNCHANGED notFetch

----------------------------------------------------------------------------
\* The administrative filters and selections of the page (useMapsPage). The
\* queries that read the filters are followed in SpecGeo.

RegionIds == {<<"r", "1">>, <<"r", "2">>}
DepartmentIds == {<<"d", "1">>, <<"d", "2">>}
CommuneIds == {<<"c", "1">>, <<"c", "2">>}
\* the empty string
EmptyString == <<>>

\* what the map reports on a click: no feature, or a first feature with a
\* type and an id
ClickEvents ==
  {[hasFeature |-> FALSE, type |-> "none", id |-> EmptyString]}
  \cup {[hasFeature |-> TRUE, type |-> "region", id |-> i] : i \in RegionIds}
  \cup {[hasFeature |-> TRUE, type |-> "department", id |-> i] : i \in DepartmentIds}
  \cup {[hasFeature |-> TRUE, type |-> "commune", id |-> i] : i \in CommuneIds}
  \cup {[hasFeature |-> TRUE, type |-> "forest", id |-> EmptyString]}

\* useState('') three times
SelInit ==
  /\ selectedRegion = EmptyString
  /\ selectedDepartment = EmptyString
  /\ selectedCommune = EmptyString

SelIdle ==
  /\ selectedRegion = EmptyString
  /\ selectedDepartment = EmptyString
  /\ selectedCommune = EmptyString

\* what the steps on filters and selections leave alone of the page
pageRest == <<mounted, viewState, debouncedViewState, debTimers>>

FltHandleRegionFilter ==
  /\ \E regionId \in RegionIds \cup {EmptyString} :
       /\ filters' = [filters EXCEPT !.region = regionId,
                                     !.department = NoValue, !.commune = NoValue]
       /\ selectedRegion' = regionId
       /\ lastArg' = regionId
  /\ lastOp' = "handleRegionFilter"
  /\ UNCHANGED <<selectedDepartment, selectedCommune>>
  /\ UNCHANGED pageRest
  /\ UNCHANGED notSel

FltHandleDepartmentFilter ==
  /\ \E departmentId \in DepartmentIds \cup {EmptyString} :
       /\ filters' = [filters EXCEPT !.department = departmentId, !.commune = NoValue]
       /\ selectedDepartment' = departmentId
       /\ lastArg' = departmentId
  /\ lastOp' = "handleDepartmentFilter"
  /\ UNCHANGED <<selectedRegion, selectedCommune>>
  /\ UNCHANGED pageRest
  /\ UNCHANGED notSel

FltSetSelectedCommune ==
  /\ \E communeId \in CommuneIds \cup {EmptyString} :
       /\ selectedCommune' = communeId
       /\ lastArg' = communeId
  /\ lastOp' = "setSelectedCommune"
  /\ UNCHANGED <<filters, selectedRegion, selectedDepartment>>
  /\ UNCHANGED pageRest
  /\ UNCHANGED notSel

FltHandleMapClick ==
  /\ \E event \in ClickEvents :
       /\ lastArg' = event.id
       /\ IF event.hasFeature /\ event.type = "region"
          THEN selectedRegion' = event.id /\ UNCHANGED <<selectedDepartment, selectedCommune>>
          ELSE IF event.hasFeature /\ event.type = "department"
          THEN selectedDepartment' = event.id /\ UNCHANGED <<selectedRegion, selectedCommune>>
          ELSE IF event.hasFeature /\ event.type = "commune"
          THEN selectedCommune' = event.id /\ UNCHANGED <<selectedRegion, selectedDepartment>>
          ELSE UNCHANGED <<selectedRegion, selectedDepartment, selectedCommune>>
  /\ lastOp' = "handleMapClick"
  /\ UNCHANGED filters
  /\ UNCHANGED pageRest
  /\ UNCHANGED notSel

FltClearFilters ==
  /\ filters' = createDefaultFilters
  /\ selectedRegion' = EmptyString
  /\ selectedDepartment' = EmptyString
  /\ selectedCommune' = EmptyString
  /\ lastOp' = "clearFilters"
  /\ lastArg' = <<>>
  /\ UNCHANGED pageRest
  /\ UNCHANGED notSel

----------------------------------------------------------------------------
\* The session: AuthContext.tsx, the auth mutations and authService.ts

\* null, as the reducer state and localStorage.getItem give it
Null == <<"<", "null", ">">>

\* the accounts the backend knows; an account stands for its email and for
\* the user object of its answers
AuthUsers == {<<"user", "u1">>, <<"user", "u2">>, <<"user", "u3">>}

\* POST /auth/login answers {accessToken, refreshToken, user}
LoginResponse(user) ==
  [user |-> user,
   accessToken |-> <<"access", user[2]>>,
   refreshToken |-> <<"refresh", user[2]>>]

JSONStringify(value) == <<"json", value>>

JSONParse(text) == text[2]

\* what axios rejects with: an answer with a status and a body (data.message,
\* data.error), a request without an answer, or an error raised before any
\* request was sent (its own message)
AuthFailure(kind, status, dataMessage, dataError, message) ==
  [kind |-> kind, status |-> status, dataMessage |-> dataMessage,
   dataError |-> dataError, message |-> message]

ServerMessage == <<"Password is too short">>

ServerError == <<"Bad Request">>

AuthFailures ==
  {AuthFailure("response", st, dm, de, NoValue) :
     st \in {400, 401, 409, 500}, dm \in {NoValue, ServerMessage},
     de \in {NoValue, ServerError}}
  \cup {AuthFailure("request", 0, NoValue, NoValue, <<"Network Error">>)}
  \cup {AuthFailure("other", 0, NoValue, NoValue, m) :
           m \in {NoValue, <<"Request aborted">>}}

\* handleAuthError with the server's message in the case 401 as well
handleAuthErrorServerMessage(error) ==
  IF error.kind = "response"
  THEN LET message == OrElse(error.dataMessage, error.dataError) IN
       CASE error.status = 400 -> OrElse(message, <<"Invalid input data">>)
         [] error.status = 401 -> OrElse(message, <<"Invalid credentials">>)
         [] error.status = 409 -> <<"Email is already registered">>
         [] OTHER -> OrElse(message, <<"Server error">>)
  ELSE IF error.kind = "request"
  THEN <<"Connection error. Please check your internet connection.">>
  ELSE OrElse(error.message, <<"Unexpected error">>)

\* the message of the Error that login and register throw
handleAuthError(error) ==
  IF error.kind = "response"
  THEN LET message == OrElse(error.dataMessage, error.dataError) IN
       CASE error.status = 400 -> OrElse(message, <<"Invalid input data">>)
         [] error.status = 401 -> <<"Invalid credentials">>
         [] error.status = 409 -> <<"Email is already registered">>
         [] OTHER -> OrElse(message, <<"Server error">>)
  ELSE IF error.kind = "request"
  THEN <<"Connection error. Please check your internet connection.">>
  ELSE OrElse(error.message, <<"Unexpected error">>)

initialAuthState ==
  [user |-> Null, accessToken |-> Null, refreshToken |-> Null,
   isAuthenticated |-> FALSE, isLoading |-> TRUE, error |-> Null]

\* AUTH_ERROR that keeps the session and sets only the error
authErrorKeepingSession(state, action) ==
  [state EXCEPT !.isLoading = FALSE, !.error = action.payload]

authError(state, action) ==
  [state EXCEPT !.user = Null, !.accessToken = Null, !.refreshToken = Null,
                !.isAuthenticated = FALSE, !.isLoading = FALSE,
                !.error = action.payload]

authReducer(state, action) ==
  CASE action.type = "AUTH_START" ->
         [state EXCEPT !.isLoading = TRUE, !.error = Null]
    [] action.type = "AUTH_SUCCESS" ->
         [state EXCEPT !.user = action.payload.user,
                       !.accessToken = action.payload.accessToken,
                       !.refreshToken = OrElse(action.payload.refreshToken, state.refreshToken),
                       !.isAuthenticated = TRUE, !.isLoading = FALSE,
                       !.error = Null]
    [] action.type = "AUTH_ERROR" -> authError(state, action)
    [] action.type = "AUTH_LOGOUT" ->
         [state EXCEPT !.user = Null, !.accessToken = Null, !.refreshToken = Null,
                       !.isAuthenticated = FALSE, !.isLoading = FALSE,
                       !.error = Null]
    [] action.type = "CLEAR_ERROR" -> [state EXCEPT !.error = Null]
    [] action.type = "SET_LOADING" -> [state EXCEPT !.isLoading = action.payload]
    [] OTHER -> state

\* localStorage under the keys auth_token, refresh_token and auth_user
EmptyStorage == [auth_token |-> Null, refresh_token |-> Null, auth_user |-> Null]

\* useLoginMutation.onSuccess: three setItem
storeSession(data) ==
  [auth_token |-> data.accessToken,
   refresh_token |-> data.refreshToken,
   auth_user |-> JSONStringify(data.user)]

\* useLoginMutation.onError: three removeItem
loginOnError(store) == EmptyStorage

\* no call is waiting for its answer
NoCredentials == [email |-> NoValue, rememberMe |-> FALSE]

\* the provider is mounted on a browser that holds no session or the session
\* of an earlier visit
AuthInit ==
  /\ authState = initialAuthState
  /\ storage \in {EmptyStorage} \cup {storeSession(LoginResponse(u)) : u \in AuthUsers}
  /\ authPc = "idle"
  /\ authCredentials = NoCredentials

AuthIdle ==
  /\ authState = initialAuthState
  /\ storage = EmptyStorage
  /\ authPc = "idle"
  /\ authCredentials = NoCredentials

\* login, up to the await of loginMutation.mutateAsync
AuthLogin ==
  /\ authPc = "idle"
  /\ \E user \in AuthUsers, rememberMe \in BOOLEAN :
       authCredentials' = [email |-> user, rememberMe |-> rememberMe]
  /\ authState' = authReducer(authState, [type |-> "AUTH_START"])
  /\ authPc' = "login"
  /\ lastOp' = "login"
  /\ lastArg' = <<>>
  /\ UNCHANGED storage
  /\ UNCHANGED notAuth

\* the writes of login's try block after AUTH_SUCCESS: setStoredToken,
\* setStoredUser and refresh_token with "remember me", refresh_token alone
\* without it
loginTryBlockStorage(store, result, rememberMe) ==
  IF rememberMe
  THEN [store EXCEPT !.auth_token = result.accessToken,
                     !.auth_user = JSONStringify(result.user),
                     !.refresh_token = result.refreshToken]
  ELSE [store EXCEPT !.refresh_token = result.refreshToken]

\* the login is accepted: onSuccess of the mutation, then the try block
AuthLoginResolves ==
  /\ authPc = "login"
  /\ LET result == LoginResponse(authCredentials.email) IN
         /\ storage' = loginTryBlockStorage(storeSession(result), result,
                                            authCredentials.rememberMe)
         /\ authState' = authReducer(authState,
              [type |-> "AUTH_SUCCESS",
               payload |-> [user |-> result.user,
                            accessToken |-> result.accessToken,
                            refreshToken |-> result.refreshToken]])
         /\ lastArg' = [user |-> result.user, rememberMe |-> authCredentials.rememberMe]
  /\ authPc' = "idle"
  /\ authCredentials' = NoCredentials
  /\ lastOp' = "loginSucceeded"
  /\ UNCHANGED notAuth

\* the login is refused: onError of the mutation, then the catch block
AuthLoginRejects ==
  /\ authPc = "login"
  /\ \E error \in AuthFailures :
       /\ storage' = loginOnError(storage)
       /\ authState' = authReducer(authState,
            [type |-> "AUTH_ERROR", payload |-> handleAuthError(error)])
       /\ lastArg' = <<error>>
  /\ authPc' = "idle"
  /\ authCredentials' = NoCredentials
  /\ lastOp' = "loginFailed"
  /\ UNCHANGED notAuth

\* register, up to the await of registerMutation.mutateAsync
AuthRegister ==
  /\ authPc = "idle"
  /\ authState' = authReducer(authState, [type |-> "AUTH_START"])
  /\ \E user \in AuthUsers :
       authCredentials' = [email |-> user, rememberMe |-> FALSE]
  /\ authPc' = "register"
  /\ lastOp' = "register"
  /\ lastArg' = <<>>
  /\ UNCHANGED storage
  /\ UNCHANGED notAuth

\* the registration is accepted: register calls login with rememberMe false
AuthRegisterResolves ==
  /\ authPc = "register"
  /\ authState' = authReducer(authState, [type |-> "AUTH_START"])
  /\ authCredentials' = [email |-> authCredentials.email, rememberMe |-> FALSE]
  /\ authPc' = "login"
  /\ lastOp' = "registerSucceeded"
  /\ lastArg' = <<>>
  /\ UNCHANGED storage
  /\ UNCHANGED notAuth

\* the registration is refused: onError only logs, then the catch block
AuthRegisterRejects ==
  /\ authPc = "register"
  /\ \E error \in AuthFailures :
       /\ authState' = authReducer(authState,
            [type |-> "AUTH_ERROR", payload |-> handleAuthError(error)])
       /\ lastArg' = <<error>>
  /\ authPc' = "idle"
  /\ authCredentials' = NoCredentials
  /\ lastOp' = "registerFailed"
  /\ UNCHANGED storage
  /\ UNCHANGED notAuth

\* logout's catch block that dispatches AUTH_LOGOUT and removes nothing
logoutCatchKeepingStorage(store) == store

\* logout's catch block: removeStoredToken, removeStoredUser and
\* removeItem('refresh_token')
logoutCatch(store) == EmptyStorage

\* logout, up to the await of logoutMutation.mutateAsync
AuthLogout ==
  /\ authPc = "idle"
  /\ authPc' = "logout"
  /\ lastOp' = "logout"
  /\ lastArg' = <<>>
  /\ UNCHANGED <<authState, storage, authCredentials>>
  /\ UNCHANGED notAuth

\* the mutation ran: its three removeItem, then the try block
AuthLogoutResolves ==
  /\ authPc = "logout"
  /\ storage' = EmptyStorage
  /\ authState' = authReducer(authState, [type |-> "AUTH_LOGOUT"])
  /\ authPc' = "idle"
  /\ lastOp' = "logoutSucceeded"
  /\ lastArg' = authState.user
  /\ UNCHANGED authCredentials
  /\ UNCHANGED notAuth

\* the mutation threw, with localStorage as it was: the catch block
AuthLogoutRejects ==
  /\ authPc = "logout"
  /\ storage' = logoutCatch(storage)
  /\ authState' = authReducer(authState, [type |-> "AUTH_LOGOUT"])
  /\ authPc' = "idle"
  /\ lastOp' = "logoutFailed"
  /\ lastArg' = authState.user
  /\ UNCHANGED authCredentials
  /\ UNCHANGED notAuth

\* useRefreshTokenMutation called with the stored refresh token and
\* answered: onSuccess stores the session of the token's user
AuthRefreshTokenResolves ==
  /\ authPc = "idle"
  /\ storage.refresh_token /= Null
  /\ storage' = storeSession(LoginResponse(<<"user", storage.refresh_token[2]>>))
  /\ lastOp' = "refreshSucceeded"
  /\ lastArg' = storage.refresh_token
  /\ UNCHANGED <<authState, authPc, authCredentials>>
  /\ UNCHANGED notAuth

\* useRefreshTokenMutation refused: onError removes the three keys and
\* assigns window.location.href, which loads /auth with a new provider
AuthRefreshTokenRejects ==
  /\ authPc = "idle"
  /\ storage.refresh_token /= Null
  /\ storage' = EmptyStorage
  /\ authState' = initialAuthState
  /\ lastOp' = "refreshFailed"
  /\ lastArg' = storage.refresh_token
  /\ UNCHANGED <<authPc, authCredentials>>
  /\ UNCHANGED notAuth

\* refreshAuth, run by the effect: the stored session becomes the state
AuthRefreshAuth ==
  /\ authPc = "idle"
  /\ authState' =
       IF storage.auth_token /= Null /\ storage.auth_user /= Null
       THEN authReducer(authState,
              [type |-> "AUTH_SUCCESS",
               payload |-> [user |-> JSONParse(storage.auth_user),
                            accessToken |-> storage.auth_token,
                            refreshToken |-> IF storage.refresh_token /= Null
                                             THEN storage.refresh_token
                                             ELSE NoValue]])
       ELSE authReducer(authState, [type |-> "SET_LOADING", payload |-> FALSE])
  /\ lastOp' = "refreshAuth"
  /\ lastArg' = <<>>
  /\ UNCHANGED <<storage, authPc, authCredentials>>
  /\ UNCHANGED notAuth

----------------------------------------------------------------------------
\* The update queue of visibleLayerIds (useState of useMapsPage): a call of
\* setVisibleLayerIds queues an updater or a value, the next render applies
\* the queue in order

\* setVisibleLayerIds(toggled set), computed from the set of the last render
queuedToggleFromSnapshot(visible, layerId) ==
  [kind |-> "value", value |-> toggleUpdater(visible, layerId)]

\* toggleLayer: setVisibleLayerIds(prev => ...)
queuedToggle(visible, layerId) ==
  [kind |-> "toggle", layerId |-> layerId]

\* the sync effect: setVisibleLayerIds(prev => ...) over the effect's layers
queuedSync(fetched) ==
  [kind |-> "sync", fetched |-> fetched]

\* loadInitialLayers: setVisibleLayerIds(new Set(...)) of the layers it closes over
queuedLoadInitial(fetched) ==
  [kind |-> "value", value |-> layerIds(fetched)]

\* one queued update applied to the state the update before it left
applyUpdate(prev, update) ==
  CASE update.kind = "toggle" -> toggleUpdater(prev, update.layerId)
    [] update.kind = "sync" -> syncVisibleLayerIds(prev, update.fetched)
    [] OTHER -> update.value

RECURSIVE applyQueue(_, _)
applyQueue(prev, queue) ==
  IF queue = <<>> THEN prev
  ELSE applyQueue(applyUpdate(prev, Head(queue).update), Tail(queue))

\* the layer lists handed over while updates are queued
BatchResponses ==
  {resp \in VisResponses :
     \A n \in DOMAIN resp.features :
       resp.features[n].species \in {QuercusRobur, FagusSylvatica}}

BatchInit ==
  /\ fetchedForestLayers = <<>>
  /\ visibleLayerIds = {}
  /\ syncPending = TRUE
  /\ hiddenByUser = {}
  /\ prevVisible = {}
  /\ updateQueue = <<>>

BatchIdle == updateQueue = <<>>

\* a queued update with the call that queued it
queued(op, arg, update) == [op |-> op, arg |-> arg, update |-> update]

queueOps(queue) == [n \in DOMAIN queue |-> queue[n].op]

\* a render: the queued updates are applied in order
BatchRender ==
  /\ updateQueue /= <<>>
  /\ visibleLayerIds' = applyQueue(visibleLayerIds, updateQueue)
  /\ prevVisible' = visibleLayerIds
  /\ updateQueue' = <<>>
  /\ lastOp' = "render"
  /\ lastArg' = queueOps(updateQueue)
  /\ UNCHANGED <<fetchedForestLayers, syncPending, hiddenByUser>>
  /\ UNCHANGED notBatch

\* useGeoLayers hands over a new layer list: a render, after which the sync
\* effect is due
BatchFetchedLayersChange ==
  /\ \E resp \in BatchResponses : fetchedForestLayers' = getForestLayers(resp)
  /\ visibleLayerIds' = applyQueue(visibleLayerIds, updateQueue)
  /\ prevVisible' = visibleLayerIds
  /\ updateQueue' = <<>>
  /\ syncPending' = TRUE
  /\ lastOp' = "fetchedLayersChange"
  /\ lastArg' = queueOps(updateQueue)
  /\ UNCHANGED hiddenByUser
  /\ UNCHANGED notBatch

\* the sync effect runs and queues its updater
BatchSyncEffect ==
  /\ syncPending
  /\ Len(updateQueue) < MaxQueuedUpdates
  /\ updateQueue' = Append(updateQueue,
       queued("syncEffect", fetchedForestLayers, queuedSync(fetchedForestLayers)))
  /\ syncPending' = FALSE
  /\ lastOp' = "syncEffect"
  /\ lastArg' = <<>>
  /\ UNCHANGED <<fetchedForestLayers, visibleLayerIds, hiddenByUser, prevVisible>>
  /\ UNCHANGED notBatch

\* toggleLayer on one of the layers listed, before or after the sync effect
\* of the last render has run
BatchToggleLayer ==
  /\ Len(updateQueue) < MaxQueuedUpdates
  /\ \E layerId \in layerIds(fetchedForestLayers) :
       /\ updateQueue' = Append(updateQueue,
            queued("toggleLayer", layerId, queuedToggle(visibleLayerIds, layerId)))
       /\ lastArg' = layerId
  /\ lastOp' = "toggleLayer"
  /\ UNCHANGED <<fetchedForestLayers, visibleLayerIds, syncPending, hiddenByUser, prevVisible>>
  /\ UNCHANGED notBatch

\* loadInitialLayers, called by handleMapLoad
BatchLoadInitialLayers ==
  /\ Len(updateQueue) < MaxQueuedUpdates
  /\ updateQueue' = Append(updateQueue,
       queued("loadInitialLayers", <<>>, queuedLoadInitial(fetchedForestLayers)))
  /\ lastOp' = "loadInitialLayers"
  /\ lastArg' = <<>>
  /\ UNCHANGED <<fetchedForestLayers, visibleLayerIds, syncPending, hiddenByUser, prevVisible>>
  /\ UNCHANGED notBatch

----------------------------------------------------------------------------
\* The loading overlay (useLoadingState, called by MapViewer)

\* delayMs = 500 by default, 300 from MapViewer
DefaultDelayMs == 500
MapViewerDelayMs == 300
\* minDisplayMs = 200 by default and from MapViewer; a caller may pass more
DefaultMinDisplayMs == 200
LongMinDisplayMs == 400

DelayValues == {MapViewerDelayMs, DefaultDelayMs}
MinDisplayValues == {DefaultMinDisplayMs, LongMinDisplayMs}

\* a timeout ref that holds no pending timeout
NoTimer == -1

LoadingOptions ==
  [isLoading : BOOLEAN, isInitialLoad : BOOLEAN,
   delayMs : DelayValues, minDisplayMs : MinDisplayValues]

\* useState(isInitialLoad && isLoading) and the four refs; startTimeRef is
\* kept as the time since it was set (undefined counts as long ago)
initialLoadingState(options) ==
  [shouldShowLoading |-> options.isInitialLoad /\ options.isLoading,
   isShowing |-> FALSE,
   delayTimer |-> NoTimer,
   minTimer |-> NoTimer,
   sinceStart |-> LoadCapMs]

\* clearTimeout of both refs: the cleanup, the head of the effect, resetLoading
clearTimers(state) ==
  [state EXCEPT !.delayTimer = NoTimer, !.minTimer = NoTimer]

\* the effect that marks the overlay as not showing when it sets the
\* minimum-display timeout, not when the timeout fires
loadingEffectMarksHiddenEarly(state, options) ==
  LET cleared == clearTimers(state) IN
  IF options.isLoading /\ ~cleared.isShowing
  THEN IF options.isInitialLoad
       THEN [cleared EXCEPT !.sinceStart = 0, !.shouldShowLoading = TRUE,
                            !.isShowing = TRUE]
       ELSE [cleared EXCEPT !.sinceStart = 0, !.delayTimer = options.delayMs]
  ELSE IF ~options.isLoading /\ cleared.isShowing
  THEN IF cleared.sinceStart < options.minDisplayMs
       THEN [cleared EXCEPT !.minTimer = options.minDisplayMs - cleared.sinceStart,
                            !.isShowing = FALSE]
       ELSE [cleared EXCEPT !.shouldShowLoading = FALSE, !.isShowing = FALSE]
  ELSE cleared

\* the effect over [isLoading, delayMs, minDisplayMs, isInitialLoad], with
\* the cleanup of the effect before it
loadingEffect(state, options) ==
  LET cleared == clearTimers(state) IN
  IF options.isLoading /\ ~cleared.isShowing
  THEN IF options.isInitialLoad
       THEN [cleared EXCEPT !.sinceStart = 0, !.shouldShowLoading = TRUE,
                            !.isShowing = TRUE]
       ELSE [cleared EXCEPT !.sinceStart = 0, !.delayTimer = options.delayMs]
  ELSE IF ~options.isLoading /\ cleared.isShowing
  THEN IF cleared.sinceStart < options.minDisplayMs
       THEN [cleared EXCEPT !.minTimer = options.minDisplayMs - cleared.sinceStart]
       ELSE [cleared EXCEPT !.shouldShowLoading = FALSE, !.isShowing = FALSE]
  ELSE cleared

\* the callback of the delay timeout; the isLoading it tests is the one of
\* the effect that set the timeout, which is true
delayTimeoutCallback(state) ==
  [state EXCEPT !.shouldShowLoading = TRUE, !.isShowing = TRUE,
                !.delayTimer = NoTimer]

\* the callback of the minimum-display timeout
minDisplayTimeoutCallback(state) ==
  [state EXCEPT !.shouldShowLoading = FALSE, !.isShowing = FALSE,
                !.minTimer = NoTimer]

resetLoading(state) ==
  [clearTimers(state) EXCEPT !.shouldShowLoading = FALSE, !.isShowing = FALSE]

\* how long the overlay has been up and isLoading true, after a step
notedLoading(hist, state, options, newState, newOptions) ==
  [shownFor |-> IF newState.shouldShowLoading /\ ~state.shouldShowLoading
                THEN 0 ELSE hist.shownFor,
   loadingFor |-> IF newOptions.isLoading /\ ~options.isLoading
                  THEN 0 ELSE hist.loadingFor]

\* the hook after its first render and its first effect
LoadInit ==
  /\ ldProps \in LoadingOptions
  /\ ld = loadingEffect(initialLoadingState(ldProps), ldProps)
  /\ ldHist = [shownFor |-> 0, loadingFor |-> 0]

LoadIdle ==
  /\ ldProps = [isLoading |-> FALSE, isInitialLoad |-> FALSE,
                delayMs |-> DefaultDelayMs, minDisplayMs |-> DefaultMinDisplayMs]
  /\ ld = initialLoadingState(ldProps)
  /\ ldHist = [shownFor |-> 0, loadingFor |-> 0]

\* a render with new arguments: the cleanup and the effect run
rerender(options) ==
  /\ options /= ldProps
  /\ ldProps' = options
  /\ ld' = loadingEffect(ld, options)
  /\ ldHist' = notedLoading(ldHist, ld, ldProps, ld', options)

LoadSetIsLoading ==
  /\ rerender([ldProps EXCEPT !.isLoading = ~ldProps.isLoading])
  /\ lastOp' = "isLoading"
  /\ lastArg' = <<>>
  /\ UNCHANGED notLoad

LoadSetIsInitialLoad ==
  /\ rerender([ldProps EXCEPT !.isInitialLoad = ~ldProps.isInitialLoad])
  /\ lastOp' = "isInitialLoad"
  /\ lastArg' = <<>>
  /\ UNCHANGED notLoad

LoadSetDelayMs ==
  /\ \E delayMs \in DelayValues : rerender([ldProps EXCEPT !.delayMs = delayMs])
  /\ lastOp' = "delayMs"
  /\ lastArg' = <<>>
  /\ UNCHANGED notLoad

LoadSetMinDisplayMs ==
  /\ \E minDisplayMs \in MinDisplayValues :
       rerender([ldProps EXCEPT !.minDisplayMs = minDisplayMs])
  /\ lastOp' = "minDisplayMs"
  /\ lastArg' = <<>>
  /\ UNCHANGED notLoad

LoadResetLoading ==
  /\ ld' = resetLoading(ld)
  /\ ldHist' = notedLoading(ldHist, ld, ldProps, ld', ldProps)
  /\ lastOp' = "resetLoading"
  /\ lastArg' = <<>>
  /\ UNCHANGED ldProps
  /\ UNCHANGED notLoad

LoadDelayTimerFires ==
  /\ ld.delayTimer = 0
  /\ ld' = delayTimeoutCallback(ld)
  /\ ldHist' = notedLoading(ldHist, ld, ldProps, ld', ldProps)
  /\ lastOp' = "delayTimeout"
  /\ lastArg' = <<>>
  /\ UNCHANGED ldProps
  /\ UNCHANGED notLoad

LoadMinTimerFires ==
  /\ ld.minTimer = 0
  /\ ld' = minDisplayTimeoutCallback(ld)
  /\ ldHist' = notedLoading(ldHist, ld, ldProps, ld', ldProps)
  /\ lastOp' = "minDisplayTimeout"
  /\ lastArg' = <<>>
  /\ UNCHANGED ldProps
  /\ UNCHANGED notLoad

\* time passes, up to the next timeout that is due
LoadTick ==
  /\ ld.delayTimer /= 0
  /\ ld.minTimer /= 0
  /\ ld' = [ld EXCEPT
       !.delayTimer = IF @ = NoTimer THEN @ ELSE Max0(@ - TickMs),
       !.minTimer = IF @ = NoTimer THEN @ ELSE Max0(@ - TickMs),
       !.sinceStart = Min(LoadCapMs, @ + TickMs)]
  /\ ldHist' = [shownFor |-> IF ld.shouldShowLoading
                             THEN Min(LoadCapMs, ldHist.shownFor + TickMs)
                             ELSE ldHist.shownFor,
                loadingFor |-> IF ldProps.isLoading
                               THEN Min(LoadCapMs, ldHist.loadingFor + TickMs)
                               ELSE ldHist.loadingFor]
  /\ lastOp' = "tick"
  /\ lastArg' = <<>>
  /\ UNCHANGED ldProps
  /\ UNCHANGED notLoad

----------------------------------------------------------------------------
\* The reducer alone, under every action it accepts

\* the payloads of AUTH_SUCCESS: login's, with a refresh token, and
\* refreshAuth's, which may have none
SuccessPayloads ==
  {[user |-> u, accessToken |-> LoginResponse(u).accessToken, refreshToken |-> rt] :
     u \in AuthUsers, rt \in {NoValue, <<"refresh", "u1">>}}

ErrorPayloads == {handleAuthError(f) : f \in AuthFailures}

dispatch(action) ==
  /\ authState' = authReducer(authState, action)
  /\ lastOp' = action.type
  /\ lastArg' = <<authState.error>>
  /\ UNCHANGED <<storage, authPc, authCredentials>>

RedAuthStart ==
  /\ dispatch([type |-> "AUTH_START"])
  /\ UNCHANGED notAuth

RedAuthSuccess ==
  /\ \E payload \in SuccessPayloads :
       dispatch([type |-> "AUTH_SUCCESS", payload |-> payload])
  /\ UNCHANGED notAuth

RedAuthError ==
  /\ \E payload \in ErrorPayloads :
       dispatch([type |-> "AUTH_ERROR", payload |-> payload])
  /\ UNCHANGED notAuth

RedAuthLogout ==
  /\ dispatch([type |-> "AUTH_LOGOUT"])
  /\ UNCHANGED notAuth

RedClearError ==
  /\ dispatch([type |-> "CLEAR_ERROR"])
  /\ UNCHANGED notAuth

RedSetLoading ==
  /\ \E payload \in BOOLEAN :
       dispatch([type |-> "SET_LOADING", payload |-> payload])
  /\ UNCHANGED notAuth

----------------------------------------------------------------------------
\* Specifications

\* normalizeSpeciesToId on every bounded input
InitNorm == NzInit /\ AsmIdle /\ VisIdle /\ DebIdle /\ CbIdle /\ GeoIdle /\ CadIdle /\ FetchIdle /\ SelIdle /\ AuthIdle /\ BatchIdle /\ LoadIdle /\ OpIdle
NextNorm == NzNormalize \/ NzNormalizeAgain
SpecNorm == InitNorm /\ [][NextNorm]_vars

\* getForestLayers and the species filters on every bounded input
InitLayers == AsmInit /\ NzIdle /\ VisIdle /\ DebIdle /\ CbIdle /\ GeoIdle /\ CadIdle /\ FetchIdle /\ SelIdle /\ AuthIdle /\ BatchIdle /\ LoadIdle /\ OpIdle
NextLayers == AsmGetForestLayers \/ AsmHookFilter \/ AsmRendererFilter
SpecLayers == InitLayers /\ [][NextLayers]_vars

\* the visibility tracking of the map page
InitVis == VisInit /\ NzIdle /\ AsmIdle /\ DebIdle /\ CbIdle /\ GeoIdle /\ CadIdle /\ FetchIdle /\ SelIdle /\ AuthIdle /\ BatchIdle /\ LoadIdle /\ OpIdle
NextVis == VisFetchedLayersChange \/ VisSyncEffect \/ VisToggleLayer \/ VisLoadInitialLayers
SpecVis == InitVis /\ [][NextVis]_vars

\* the two debounce hooks: useDebounce under useGeoLayers, and a component
\* using useDebounceCallback
InitDebounce == DebInit /\ CbInit /\ GeoIdle /\ NzIdle /\ AsmIdle /\ VisIdle /\ CadIdle /\ FetchIdle /\ SelIdle /\ AuthIdle /\ BatchIdle /\ LoadIdle /\ OpIdle
NextDebounce ==
  \/ DebViewStateChange
  \/ DebFire
  \/ DebSetFilters
  \/ DebTick
  \/ DebUnmount
  \/ CbCall
  \/ CbFire
  \/ CbUnmount
SpecDebounce == InitDebounce /\ [][NextDebounce]_vars

\* the maps page: viewport, filters and the two queries
InitGeo == DebInit /\ GeoInit /\ CbIdle /\ NzIdle /\ AsmIdle /\ VisIdle /\ CadIdle /\ FetchIdle /\ SelIdle /\ AuthIdle /\ BatchIdle /\ LoadIdle /\ OpIdle
NextGeo ==
  \/ GeoViewStateChange
  \/ GeoDebounceFire
  \/ GeoSetTreeSpecies
  \/ GeoSetShowCadastre
  \/ GeoSetMapError
  \/ GeoForestResolves
  \/ GeoCadastreResolves
  \/ GeoStaleTimePasses
SpecGeo == InitGeo /\ [][NextGeo]_vars

\* the two queries of the maps page with the operation of each step
\* recorded, under one species selection and without a map error
InitQueries == InitGeo
NextQueries ==
  \/ QryViewStateChange
  \/ QryDebounceFire
  \/ QrySetShowCadastre
  \/ QryForestResolves
  \/ QryCadastreResolves
  \/ QryStaleTimePasses
SpecQueries == InitQueries /\ [][NextQueries]_vars

\* getCadastreLayers on every bounded list of parcels
InitCadastre ==
  /\ CadInit /\ NzIdle /\ AsmIdle /\ VisIdle /\ DebIdle /\ CbIdle /\ GeoIdle
  /\ FetchIdle /\ SelIdle /\ AuthIdle /\ BatchIdle /\ LoadIdle /\ OpIdle
NextCadastre == CadGetCadastreLayers
SpecCadastre == InitCadastre /\ [][NextCadastre]_vars

\* one fetch of a forest or a cadastre query, against any upstream answers
InitFetch ==
  /\ FetchInit /\ NzIdle /\ AsmIdle /\ VisIdle /\ DebIdle /\ CbIdle /\ GeoIdle
  /\ CadIdle /\ SelIdle /\ AuthIdle /\ BatchIdle /\ LoadIdle /\ OpIdle
NextFetch == FetchForestAttempt \/ FetchCadastreAttempt \/ FetchAgain
SpecFetch == InitFetch /\ [][NextFetch]_vars

\* the administrative filters and selections of the maps page
InitFilters ==
  /\ DebInit /\ SelInit /\ NzIdle /\ AsmIdle /\ VisIdle /\ CbIdle /\ GeoIdle
  /\ CadIdle /\ FetchIdle /\ AuthIdle /\ BatchIdle /\ LoadIdle /\ OpIdle
NextFilters ==
  \/ FltHandleRegionFilter
  \/ FltHandleDepartmentFilter
  \/ FltSetSelectedCommune
  \/ FltHandleMapClick
  \/ FltClearFilters
SpecFilters == InitFilters /\ [][NextFilters]_vars

InitAuth ==
  /\ AuthInit /\ NzIdle /\ AsmIdle /\ VisIdle /\ DebIdle /\ CbIdle /\ GeoIdle
  /\ CadIdle /\ FetchIdle /\ SelIdle /\ BatchIdle /\ LoadIdle /\ OpIdle
NextAuth ==
  \/ AuthLogin
  \/ AuthLoginResolves
  \/ AuthLoginRejects
  \/ AuthRegister
  \/ AuthRegisterResolves
  \/ AuthRegisterRejects
  \/ AuthLogout
  \/ AuthLogoutResolves
  \/ AuthLogoutRejects
  \/ AuthRefreshTokenResolves
  \/ AuthRefreshTokenRejects
  \/ AuthRefreshAuth
SpecAuth == InitAuth /\ [][NextAuth]_vars

InitBatch ==
  /\ BatchInit /\ NzIdle /\ AsmIdle /\ DebIdle /\ CbIdle /\ GeoIdle /\ CadIdle
  /\ FetchIdle /\ SelIdle /\ AuthIdle /\ LoadIdle /\ OpIdle
NextBatch ==
  \/ BatchRender
  \/ BatchFetchedLayersChange
  \/ BatchSyncEffect
  \/ BatchToggleLayer
  \/ BatchLoadInitialLayers

InitReducer ==
  /\ AuthIdle /\ NzIdle /\ AsmIdle /\ VisIdle /\ DebIdle /\ CbIdle /\ GeoIdle
  /\ CadIdle /\ FetchIdle /\ SelIdle /\ BatchIdle /\ LoadIdle /\ OpIdle
NextReducer ==
  \/ RedAuthStart
  \/ RedAuthSuccess
  \/ RedAuthError
  \/ RedAuthLogout
  \/ RedClearError
  \/ RedSetLoading
SpecReducer == InitReducer /\ [][NextReducer]_vars

SpecBatch == InitBatch /\ [][NextBatch]_vars

InitLoading ==
  /\ LoadInit /\ NzIdle /\ AsmIdle /\ VisIdle /\ DebIdle /\ CbIdle /\ GeoIdle
  /\ CadIdle /\ FetchIdle /\ SelIdle /\ AuthIdle /\ BatchIdle /\ OpIdle
NextLoading ==
  \/ LoadSetIsLoading
  \/ LoadSetIsInitialLoad
  \/ LoadSetDelayMs
  \/ LoadSetMinDisplayMs
  \/ LoadResetLoading
  \/ LoadDelayTimerFires
  \/ LoadMinTimerFires
  \/ LoadTick
SpecLoading == InitLoading /\ [][NextLoading]_vars

\* time passes and a timeout that is due runs
SpecLoadingLive ==
  /\ InitLoading /\ [][NextLoading]_vars
  /\ WF_vars(LoadTick)
  /\ WF_vars(LoadDelayTimerFires)
  /\ WF_vars(LoadMinTimerFires)

----------------------------------------------------------------------------
\* Claims about the pure functions

\* only characters of [a-z0-9_], no two consecutive underscores, no leading
\* or trailing underscore
WellFormedId(s) ==
  /\ \A i \in DOMAIN s : s[i] \in IdChars
  /\ \A i \in 1..(Len(s) - 1) : ~(s[i] = "_" /\ s[i + 1] = "_")
  /\ Len(s) > 0 => s[1] /= "_" /\ s[Len(s)] /= "_"

\* C9: species-id normalization is idempotent, normalize(normalize(s)) =
\* normalize(s) for every raw label s, and every output is made of [a-z0-9_]
\* only, without two consecutive underscores and without a leading or
\* trailing underscore.
C9_NormalizeIdempotent ==
  /\ nzPc \in {"once", "twice"} => WellFormedId(nzOut)
  /\ nzPc = "twice" => nzOut2 = nzOut

\* a label with upper case, blanks, a stripped character and underscores at
\* both ends has been normalized twice
C9_Witness ==
  /\ nzPc = "twice"
  /\ nzIn = <<"_", "Q", " ", "-">>
  /\ nzOut = <<"q">>
  /\ nzOut2 = <<"q">>

\* the label a feature is grouped under
C8_label(f) == IF f.species = NoValue \/ f.species = <<>> THEN Str_unknown ELSE f.species

C8_firstIndex(fs, lbl) ==
  CHOOSE i \in DOMAIN fs :
    /\ C8_label(fs[i]) = lbl
    /\ \A j \in 1..(i - 1) : C8_label(fs[j]) /= lbl

\* C8: getForestLayers partitions the input: one layer per distinct raw
\* species label (features without a species under "unknown"), every input
\* feature in exactly one layer, layers in first-encounter order of their
\* label, each with id "forest-" + normalized label, visible = true and
\* opacity 0.7; labels [Quercus robur, Quercus robur, Fagus sylvatica] give
\* two layers of 2 and 1 features.
C8_AssemblyPartitions ==
  (asmPc /= "start" /\ asmPc /= "idle" /\ fcIn.kind = "ok") =>
    LET fs == fcIn.features
        L == asmOut
        labels == {C8_label(fs[i]) : i \in DOMAIN fs}
        labelOf(n) == C8_label(L[n].geoData[1])
    IN  /\ Len(L) = Cardinality(labels)
        /\ \A n \in DOMAIN L :
             /\ Len(L[n].geoData) > 0
             /\ \A k \in DOMAIN L[n].geoData :
                  /\ L[n].geoData[k] \in Range(fs)
                  /\ C8_label(L[n].geoData[k]) = labelOf(n)
             /\ L[n].id = Str_forest_ \o normalizeSpeciesToId(labelOf(n))
             /\ labelOf(n) = QuercusRobur =>
                  L[n].id = <<"f","o","r","e","s","t","-">> \o quercus_robur
             /\ L[n].visible = TRUE
             /\ L[n].opacity = 70
        /\ \A i \in DOMAIN fs :
             Cardinality({<<n, k>> \in (DOMAIN L) \X (DOMAIN fs) :
                            k \in DOMAIN L[n].geoData /\ L[n].geoData[k] = fs[i]}) = 1
        /\ \A n, m \in DOMAIN L :
             n < m => C8_firstIndex(fs, labelOf(n)) < C8_firstIndex(fs, labelOf(m))
        /\ (Len(fs) = 3 /\ fs[1].species = QuercusRobur /\ fs[2].species = QuercusRobur
              /\ fs[3].species = FagusSylvatica) =>
             (Len(L) = 2 /\ Len(L[1].geoData) = 2 /\ Len(L[2].geoData) = 1)

\* the example of the claim has been assembled
C8_Witness ==
  /\ asmPc = "assembled"
  /\ fcIn.kind = "ok"
  /\ Len(fcIn.features) = 3
  /\ fcIn.features[1].species = QuercusRobur
  /\ fcIn.features[2].species = QuercusRobur
  /\ fcIn.features[3].species = FagusSylvatica
  /\ Len(asmOut) = 2
  /\ Len(asmOut[1].geoData) = 2
  /\ Len(asmOut[2].geoData) = 1

\* the layers of L whose species id is a member of S, in the order of L
C7_expected(L, S) ==
  IF ~S.present \/ S.items = <<>> THEN L
  ELSE LET keep == {n \in DOMAIN L :
                      Truthy(L[n].species) /\ \E i \in DOMAIN S.items : S.items[i] = L[n].species}
           RECURSIVE take(_)
           take(n) == IF n > Len(L) THEN <<>>
                      ELSE IF n \in keep THEN <<L[n]>> \o take(n + 1) ELSE take(n + 1)
       IN  take(1)

\* C7: client-side species filtering, in useGeoLayers and in LayerRenderer:
\* with an empty or undefined selection the result is the layer list
\* unchanged, otherwise it is exactly the layers whose species id is a member
\* of the selection, in the original order; layers without a species id are
\* dropped.
C7_SpeciesFilter ==
  /\ asmPc \in {"filtered", "rendered"} => hookOut = C7_expected(asmOut, selIn)
  /\ asmPc = "rendered" => rendOut = C7_expected(asmOut, selIn)

\* a selection of one species has dropped a layer of another species and a
\* layer whose species id is empty, in both filters
C7_Witness ==
  /\ asmPc = "rendered"
  /\ selIn = ArrayOf(<<quercus_robur>>)
  /\ Len(asmOut) = 3
  /\ \E n \in DOMAIN asmOut : asmOut[n].species = <<>>
  /\ Len(hookOut) = 1
  /\ hookOut[1].species = quercus_robur
  /\ rendOut = hookOut

----------------------------------------------------------------------------
\* Claims about the visibility tracking

forest_quercus_robur == Str_forest_ \o quercus_robur
forest_fagus_sylvatica == Str_forest_ \o fagus_sylvatica
forest_unknown == Str_forest_ \o Str_unknown

\* C1: a forest layer id the user has hidden, and that is still present in
\* the fetched layer list, stays hidden after the reconciliation effect has
\* run: a fetch refresh never turns a user-hidden layer back to visible.
C1_HiddenStaysHidden ==
  \A id \in hiddenByUser :
    id \in layerIds(fetchedForestLayers) => id \notin visibleLayerIds

\* C2: on reconciliation every fetched id that is not tracked is added and
\* every tracked id that is not fetched is removed, so {A,B} reconciled with
\* fetched ids {B,C} gives {B,C}; after reconciliation the tracked set is a
\* subset of the fetched ids.
C2_Reconciliation ==
  [][lastOp' = "syncEffect" =>
       LET F == layerIds(fetchedForestLayers) IN
       /\ \A id \in F : id \notin visibleLayerIds => id \in visibleLayerIds'
       /\ \A id \in visibleLayerIds : id \notin F => id \notin visibleLayerIds'
       /\ visibleLayerIds' \subseteq F
       /\ (visibleLayerIds = {forest_quercus_robur, forest_fagus_sylvatica}
             /\ F = {forest_fagus_sylvatica, forest_unknown})
            => visibleLayerIds' = {forest_fagus_sylvatica, forest_unknown}]_vars

\* the example of the claim: {A,B} has been reconciled with {B,C}
C2_Witness ==
  /\ lastOp = "syncEffect"
  /\ prevVisible = {forest_quercus_robur, forest_fagus_sylvatica}
  /\ layerIds(fetchedForestLayers) = {forest_fagus_sylvatica, forest_unknown}
  /\ visibleLayerIds = {forest_fagus_sylvatica, forest_unknown}

C3_FlagIsMembership(layers, visible) ==
  \A n \in DOMAIN layers : layers[n].visible <=> layers[n].id \in visible

\* C3: in every state handed to the renderer a forest layer's visible flag is
\* true exactly when its id is in the tracked visible set, whatever the
\* fetched layer's own flag is; and toggleLayer(id) flips the membership of id
\* and of no other id.
C3_SetIsSourceOfTruth ==
  [][/\ C3_FlagIsMembership(forestLayersMemo(fetchedForestLayers, visibleLayerIds),
                            visibleLayerIds)
     /\ C3_FlagIsMembership(forestLayersMemo(fetchedForestLayers', visibleLayerIds'),
                            visibleLayerIds')
     /\ lastOp' = "toggleLayer" =>
          /\ lastArg' \in visibleLayerIds' <=> lastArg' \notin visibleLayerIds
          /\ \A id \in (visibleLayerIds \cup visibleLayerIds') \ {lastArg'} :
               id \in visibleLayerIds' <=> id \in visibleLayerIds]_vars

\* a toggle has hidden one of two fetched layers: the renderer gets one layer
\* with visible = false although its fetched flag is true, and one visible
C3_Witness ==
  /\ lastOp = "toggleLayer"
  /\ Len(fetchedForestLayers) = 2
  /\ fetchedForestLayers[1].visible
  /\ lastArg = fetchedForestLayers[1].id
  /\ ~forestLayersMemo(fetchedForestLayers, visibleLayerIds)[1].visible
  /\ forestLayersMemo(fetchedForestLayers, visibleLayerIds)[2].visible

----------------------------------------------------------------------------
\* Claims about the debounce

\* C4: with the filters held fixed, in a burst of viewport changes less than
\* the debounce delay (300 ms) apart no intermediate viewport is emitted as
\* the debounced value, and exactly one new GeoQuery is derived, once the
\* input has been quiet for the delay, from the last viewport of the burst.
C4_OneQueryPerBurst ==
  [][/\ (debouncedViewState' /= debouncedViewState \/ geoQuery' /= geoQuery)
          => lastOp' \in {"debounceFire", "setFilters"}
     /\ lastOp' = "debounceFire" =>
          /\ quietFor >= DebounceDelayMs
          /\ debouncedViewState' = viewState
          /\ geoQuery' = makeGeoQuery(viewState, filters)
          /\ (filtersHeld /\ burstLen >= 1) => derivations' = 1
     /\ (filtersHeld' /\ burstLen' >= 1 /\ burstOpen') => derivations' = 0
     /\ (filtersHeld' /\ burstLen' >= 1 /\ ~burstOpen' /\ mounted')
          => (derivations' = 1 /\ debouncedViewState' = viewState')]_vars

\* a burst of two or more viewport changes has ended in one emission: the
\* debounced zoom moved from 6 to that of the last viewport
C4_Witness ==
  /\ lastOp = "debounceFire"
  /\ burstLen = 2
  /\ filtersHeld
  /\ derivations = 1
  /\ debouncedViewState = viewState
  /\ viewState.zoom = 144

\* C5: after a debounce consumer is torn down no pending debounce timer
\* fires: useDebounce emits no value and useDebounceCallback invokes no
\* callback after teardown.
C5_NoFireAfterTeardown ==
  /\ ~emittedAfterUnmount
  /\ ~calledAfterUnmount

----------------------------------------------------------------------------
\* Claims about the queries

\* a step that changes the species selection and nothing else of the page
onlySpeciesChanged ==
  /\ filters'.treeSpecies /= filters.treeSpecies
  /\ [filters' EXCEPT !.treeSpecies = filters.treeSpecies] = filters
  /\ UNCHANGED <<mounted, viewState, debouncedViewState, debTimers, mapError>>

C10_CadastreGate ==
  /\ \A r \in justIssued :
       r.kind = "cadastre" =>
         /\ mounted /\ ~mapError
         /\ filters.showCadastre
         /\ viewState.zoom >= MinCadastreZoom10
  /\ renderedCadastreLayers /= <<>> =>
       (filters.showCadastre /\ viewState.zoom >= MinCadastreZoom10)

\* with the filter on and the live zoom at 14.4, cadastre layers are on the
\* map and, the data held being stale, a cadastre request was started
C10_Witness ==
  /\ \E r \in justIssued : r.kind = "cadastre"
  /\ filters.showCadastre
  /\ viewState.zoom = 144
  /\ renderedCadastreLayers /= <<>>

\* a step that turns the show-cadastre filter on again for a query the cache
\* already holds, and the entry held for it
cadastreTurnedOnAgain ==
  /\ lastOp' = "setShowCadastre"
  /\ filters'.showCadastre
  /\ cadastreKey' \in DOMAIN cadastreCache

\* C11: turning show-cadastre off and on again with no viewport change starts
\* a cadastre request only if the zoom is at least 14 and the entry cached
\* for the key is older than its stale time; otherwise the cached cadastre
\* result is served and no request is started.
C11_CadastreRefetchOnlyWhenStale ==
  [][cadastreTurnedOnAgain =>
       LET entry == cadastreCache[cadastreKey'] IN
       /\ (\E r \in justIssued' : r.kind = "cadastre")
            <=> /\ viewState.zoom >= MinCadastreZoom10
                /\ entry.hasData /\ entry.stale /\ ~entry.fetching
       /\ (\A r \in justIssued' : r.kind = "cadastre" => r.key = cadastreKey')
       /\ cadastreLayers' = entry.data
       /\ cadastreCache'[cadastreKey'].data = entry.data]_vars

\* show-cadastre was turned on again at zoom 14.4 on stale cached data: the
\* cached layer is served and a request is under way
C11_Witness ==
  /\ lastOp = "setShowCadastre"
  /\ filters.showCadastre
  /\ viewState.zoom = 144
  /\ \E r \in justIssued : r.kind = "cadastre"
  /\ cadastreCache[cadastreKey].stale
  /\ cadastreLayers /= <<>>

----------------------------------------------------------------------------
\* Claims about the cadastre assembly

\* C12: of zero parcels getCadastreLayers returns the empty list; otherwise
\* exactly one layer with id "cadastre-parcels" and opacity 0.4 whose feature
\* collection holds one feature per parcel, in order, with the parcel's id,
\* reference, area, landUse, owner and geometry. There is never more than
\* one cadastre layer.
C12_CadastreAssembly ==
  cadPc = "done" =>
    /\ Len(cadOut) <= 1
    /\ Len(cadIn) = 0 => cadOut = <<>>
    /\ Len(cadIn) > 0 =>
         /\ Len(cadOut) = 1
         /\ cadOut[1].id = "cadastre-parcels"
         /\ cadOut[1].opacity = 40
         /\ Len(cadOut[1].geoData.features) = Len(cadIn)
         /\ \A i \in DOMAIN cadIn :
              LET f == cadOut[1].geoData.features[i] IN
              /\ f.properties.id = cadIn[i].id
              /\ f.properties.parcelNumber = cadIn[i].reference
              /\ f.properties.area10 = cadIn[i].area10
              /\ f.properties.landUse = cadIn[i].landUse
              /\ f.properties.owner = cadIn[i].owner
              /\ f.geometry = cadIn[i].geometry

\* two parcels, the second with an owner, were assembled into one layer
C12_Witness ==
  /\ cadPc = "done"
  /\ Len(cadIn) = 2
  /\ cadIn[1].id = "parcel_2"
  /\ cadIn[2].owner /= NoValue
  /\ Len(cadOut) = 1

----------------------------------------------------------------------------
\* Claims about failures

\* C13: when the forest response is absent, lacks the features key, or the
\* request fails or times out, getForestData returns the empty
\* FeatureCollection and getForestLayers the empty layer list, and neither
\* raises an exception to its caller.
C13_FailureGivesEmpty ==
  /\ ~getForestDataOutcome(fcIn).raised
  /\ ~getForestLayersOutcome(fcIn).raised
  /\ fcIn.kind \in {"rejected", "nodata", "nofeatures"} =>
       /\ getForestDataOutcome(fcIn).value = <<>>
       /\ asmPc /= "start" => asmOut = <<>>

\* getForestLayers has run on a response without the features key
C13_Witness ==
  /\ fcIn.kind = "nofeatures"
  /\ asmPc = "assembled"
  /\ asmOut = <<>>

\* the fetch has settled, and every request it sent upstream failed
fetchSettledOnFailures ==
  /\ fqStatus \in {"success", "error"}
  /\ fqUpstreamRequests > 0
  /\ fqUpstreamFailures = fqUpstreamRequests

\* C14: a forest fetch whose upstream request fails is retried up to 2 times
\* (a cadastre fetch once) before it settles: a persistently failing forest
\* endpoint receives 3 requests per fetch of a key, a cadastre endpoint 2.
C14_FailingFetchIsRetried ==
  fetchSettledOnFailures =>
    fqUpstreamRequests = (IF fqKind = "forest" THEN 3 ELSE 2)

\* C15: whenever a forest or cadastre fetch fails, useGeoLayers yields the
\* empty layer list for it together with a non-null error; a failure is
\* never reported as a successful empty result with a null error.
C15_FailureHasErrorSignal ==
  (fqStatus \in {"success", "error"} /\ fqUpstreamFailures > 0) =>
    (fqData = <<>> /\ fqError)

----------------------------------------------------------------------------
\* Claims about fetches in flight

\* the entries of a cache other than that of key are left as they were
C16_othersKept(cache, cacheAfter, key) ==
  /\ DOMAIN cacheAfter = DOMAIN cache
  /\ \A k \in DOMAIN cache : k /= key => cacheAfter[k] = cache[k]

\* C16: when fetches of different query keys are in flight and complete in
\* any order, the forest and cadastre layers useGeoLayers exposes are those
\* stored under the key of the current debounced viewport and filters; a
\* result for a superseded key is stored under its own key and does not
\* replace what is shown for the current key.
C16_ResultsStayUnderTheirKey ==
  [][/\ lastOp' = "forestResolves" =>
          /\ forestCache'[lastArg'[1]].hasData
          /\ C16_othersKept(forestCache, forestCache', lastArg'[1])
          /\ lastArg'[1] /= forestKey =>
               (forestLayers' = forestLayers /\ filteredForestLayers' = filteredForestLayers)
          /\ lastArg'[1] = forestKey => forestLayers' = forestCache'[forestKey].data
          /\ cadastreLayers' = cadastreLayers
     /\ lastOp' = "cadastreResolves" =>
          /\ cadastreCache'[lastArg'[1]].hasData
          /\ C16_othersKept(cadastreCache, cadastreCache', lastArg'[1])
          /\ lastArg'[1] /= cadastreKey => cadastreLayers' = cadastreLayers
          /\ lastArg'[1] = cadastreKey => cadastreLayers' = cadastreCache'[cadastreKey].data
          /\ forestLayers' = forestLayers
     /\ forestLayers' /= <<>> =>
          (forestKey' \in DOMAIN forestCache' /\ forestCache'[forestKey'].hasData)
     /\ cadastreLayers' /= <<>> =>
          (cadastreKey' \in DOMAIN cadastreCache' /\ cadastreCache'[cadastreKey'].hasData)]_vars

\* two forest fetches were in flight and the one of the superseded key has
\* resolved first: its layers are stored, none are shown for the current key
C16_Witness ==
  /\ lastOp = "forestResolves"
  /\ lastArg[1] /= forestKey
  /\ forestCache[lastArg[1]].data /= <<>>
  /\ forestKey \in DOMAIN forestCache
  /\ forestCache[forestKey].fetching
  /\ ~forestCache[forestKey].hasData
  /\ forestLayers = <<>>

----------------------------------------------------------------------------
\* Claims about the derived query

\* C17: the bounding box of the GeoQuery is the window around the debounced
\* viewport centre whose half-width and half-height are scaled by
\* 2^(14 - zoom), the window calculateBoundingBox computes. Stated for whole
\* zoom levels.
C17_BoundingBoxScalesWithZoom ==
  debouncedViewState.zoom % 10 = 0 =>
    geoQuery.bbox =
      calculateBoundingBox([lat |-> debouncedViewState.latitude,
                            lng |-> debouncedViewState.longitude],
                           debouncedViewState.zoom)

\* the integer nearest to a zoom given in tenths, halves upwards
C18_nearest(zoom10) ==
  CHOOSE q \in 0..30 : 10 * q - 5 <= zoom10 /\ zoom10 < 10 * q + 5

\* a query held with data that has not gone stale
C18_fresh(cache, key) ==
  key \in DOMAIN cache /\ cache[key].hasData /\ ~cache[key].stale

\* the debounced viewport moves to another zoom that rounds to the same
\* integer, the centre and the filters staying as they are
C18_sameBucketMove ==
  /\ debouncedViewState'.zoom /= debouncedViewState.zoom
  /\ C18_nearest(debouncedViewState'.zoom) = C18_nearest(debouncedViewState.zoom)
  /\ debouncedViewState'.latitude = debouncedViewState.latitude
  /\ debouncedViewState'.longitude = debouncedViewState.longitude
  /\ filters' = filters

\* C18: the GeoQuery zoom is round(debounced viewport zoom); two viewports
\* with the same centre and filters whose zooms round to the same integer
\* give the same forest and cadastre cache keys, so moving between them
\* starts no fetch while the cache entry is fresh.
C18_ZoomIsRounded ==
  [][/\ geoQuery'.zoom = C18_nearest(debouncedViewState'.zoom)
     /\ geoQuery'.zoom = getOptimizedZoomLevel(debouncedViewState'.zoom)
     /\ C18_sameBucketMove =>
          /\ forestKey' = forestKey
          /\ cadastreKey' = cadastreKey
          /\ justIssued' = {}
     /\ (forestKey' = forestKey /\ cadastreKey' = cadastreKey) =>
          \A r \in justIssued' :
            /\ r.kind = "forest" => ~C18_fresh(forestCache, r.key)
            /\ r.kind = "cadastre" => ~C18_fresh(cadastreCache, r.key)]_vars

\* the debounced zoom went from 13.6 to 14.4 on fresh forest data: the key
\* is the one of zoom 14 and nothing was requested
C18_Witness ==
  /\ lastOp = "debounceFire"
  /\ lastArg = <<136>>
  /\ debouncedViewState.zoom = 144
  /\ geoQuery.zoom = 14
  /\ C18_fresh(forestCache, forestKey)
  /\ justIssued = {}

----------------------------------------------------------------------------
\* Claims about the administrative filters

\* C19: after any sequence of handleRegionFilter, handleDepartmentFilter,
\* setSelectedCommune, handleMapClick and clearFilters, a set department
\* filter implies a set region filter and a set commune filter implies a set
\* department filter.
C19_FilterHierarchy ==
  /\ Truthy(filters.department) => Truthy(filters.region)
  /\ Truthy(filters.commune) => Truthy(filters.department)

\* a selector and its filter agree: both empty, or the same id
selectorAgrees(selected, filter) ==
  IF selected = EmptyString THEN ~Truthy(filter) ELSE selected = filter

\* C30: after any sequence of handleRegionFilter, handleDepartmentFilter,
\* setSelectedCommune, handleMapClick and clearFilters, a non-empty
\* selectedDepartment comes with a non-empty selectedRegion, a non-empty
\* selectedCommune with a non-empty selectedDepartment, and selectedRegion and
\* selectedDepartment agree with filters.region and filters.department.
C30_SelectorHierarchy ==
  /\ selectedDepartment /= EmptyString => selectedRegion /= EmptyString
  /\ selectedCommune /= EmptyString => selectedDepartment /= EmptyString
  /\ selectorAgrees(selectedRegion, filters.region)
  /\ selectorAgrees(selectedDepartment, filters.department)

----------------------------------------------------------------------------
\* Claims about the session

\* the user and both tokens are in the auth state and in storage
sessionPresent ==
  /\ authState.user /= Null
  /\ authState.accessToken /= Null
  /\ authState.refreshToken /= Null
  /\ authState.isAuthenticated
  /\ storage.auth_token /= Null
  /\ storage.refresh_token /= Null
  /\ storage.auth_user /= Null

\* C20: a failed login or a failed registration does not clear an existing
\* session: the user, the access token and the refresh token that were in the
\* auth state and in storage before the attempt are still there afterwards,
\* isAuthenticated is still true, and the error is set.
C20_AuthErrorKeepsSession ==
  [][(lastOp' \in {"loginFailed", "registerFailed"} /\ sessionPresent)
       => /\ authState'.user = authState.user
          /\ authState'.accessToken = authState.accessToken
          /\ authState'.refreshToken = authState.refreshToken
          /\ authState'.isAuthenticated
          /\ storage' = storage
          /\ authState'.error /= Null]_vars

\* the auth state holds no user and no token
signedOut ==
  /\ authState.user = Null
  /\ authState.accessToken = Null
  /\ authState.refreshToken = Null
  /\ ~authState.isAuthenticated

\* C21: after logout completes, whether the mutation succeeded or failed, and
\* after a failed token refresh, storage holds none of the three keys and the
\* auth state is unauthenticated with user and tokens null; whenever no auth
\* operation is in progress the three keys are all present or all absent.
C21_SessionClearedTogether ==
  /\ lastOp \in {"logoutSucceeded", "logoutFailed", "refreshFailed"}
       => storage = EmptyStorage /\ signedOut
  /\ authPc = "idle"
       => \/ storage = EmptyStorage
          \/ /\ storage.auth_token /= Null
             /\ storage.refresh_token /= Null
             /\ storage.auth_user /= Null

\* the logout of a signed-in user whose mutation threw has completed
C21_Witness ==
  /\ lastOp = "logoutFailed"
  /\ lastArg \in AuthUsers
  /\ storage = EmptyStorage

\* a login or a registration has just been refused
authCallFailed == lastOp \in {"loginFailed", "registerFailed"}

\* the server's message of a refused call, if it sent one
serverMessageOf(failure) ==
  IF Truthy(failure.dataMessage) THEN failure.dataMessage ELSE failure.dataError

\* the five errors of the mapping, for the failure they are the answer to
mappedError(failure) ==
  CASE failure.kind = "response" /\ failure.status = 400 ->
         IF Truthy(serverMessageOf(failure)) THEN serverMessageOf(failure)
         ELSE <<"Invalid input data">>
    [] failure.kind = "response" /\ failure.status = 401 -> <<"Invalid credentials">>
    [] failure.kind = "response" /\ failure.status = 409 -> <<"Email is already registered">>
    [] failure.kind = "response" ->
         IF Truthy(serverMessageOf(failure)) THEN serverMessageOf(failure)
         ELSE <<"Server error">>
    [] failure.kind = "request" ->
         <<"Connection error. Please check your internet connection.">>
    [] OTHER -> NoValue

\* C22 as stated: every refused auth call rejects with the error that the
\* mapping gives for a status 400, 401, 409, another status, or a request
\* without an answer.
C22_ErrorMappingIsTotal ==
  authCallFailed => authState.error = mappedError(lastArg[1])

\* C22: a refused auth call that got an answer, or whose request got none,
\* rejects with the error of the mapping (400: the server's message or a
\* default, 401: invalid credentials whatever the server said, 409: duplicate
\* email, other status: the server's message or a generic error, no answer:
\* the connectivity error); a call that failed before any request was sent
\* rejects with that failure's own message or with "Unexpected error".
C22_ErrorMapping ==
  authCallFailed =>
    IF lastArg[1].kind \in {"response", "request"}
    THEN authState.error = mappedError(lastArg[1])
    ELSE authState.error =
           IF Truthy(lastArg[1].message) THEN lastArg[1].message
           ELSE <<"Unexpected error">>

\* a login refused with 401 and a server message is an invalid-credentials error
C22_Witness ==
  /\ lastOp = "loginFailed"
  /\ lastArg[1].status = 401
  /\ lastArg[1].dataMessage = ServerMessage
  /\ authState.error = <<"Invalid credentials">>

\* C24: a successful login with rememberMe = false on a browser that holds
\* neither auth_token nor auth_user leaves both keys absent; the access token
\* and the user are persisted only when rememberMe = true.
C24_RememberMeGatesPersistence ==
  [][(/\ lastOp' = "loginSucceeded"
      /\ ~lastArg'.rememberMe
      /\ storage.auth_token = Null
      /\ storage.auth_user = Null)
       => storage'.auth_token = Null /\ storage'.auth_user = Null]_vars

\* C26: the layers of a list that getForestLayers returned have pairwise
\* distinct ids, also when two raw species labels normalize to the same id.
C26_LayerIdsAreDistinct ==
  asmPc /= "start" =>
    \A i, j \in DOMAIN asmOut : i /= j => asmOut[i].id /= asmOut[j].id

\* C27: every cadastre fetch that is issued carries a query whose rounded
\* zoom is at least 14, also while a zoom change is inside the debounce
\* window.
C27_CadastreFetchZoomBucket ==
  \A r \in justIssued :
    r.kind = "cadastre" => r.key.query.zoom * 10 >= MinCadastreZoom10

\* isAuthenticated says that user and access token are there, and an error
\* is held by an unauthenticated state only
reducerConsistent(state) ==
  /\ state.isAuthenticated <=> (state.user /= Null /\ state.accessToken /= Null)
  /\ state.error /= Null => ~state.isAuthenticated

\* C28: in every state the reducer reaches from the initial state,
\* isAuthenticated is true exactly when user and accessToken are non-null and
\* a non-null error implies isAuthenticated false; CLEAR_ERROR changes the
\* error field only and SET_LOADING the isLoading field only.
C28_ReducerInvariant ==
  [][/\ reducerConsistent(authState)
     /\ reducerConsistent(authState')
     /\ lastOp' = "CLEAR_ERROR" =>
          authState' = [authState EXCEPT !.error = authState'.error]
     /\ lastOp' = "SET_LOADING" =>
          authState' = [authState EXCEPT !.isLoading = authState'.isLoading]]_vars

\* an AUTH_ERROR on a signed-in state, then CLEAR_ERROR: the error is gone
\* and the state is unauthenticated
C28_Witness ==
  /\ lastOp = "CLEAR_ERROR"
  /\ lastArg[1] /= Null
  /\ authState.error = Null
  /\ ~authState.isAuthenticated
  /\ authState.user = Null

----------------------------------------------------------------------------
\* Claims about the update queue

\* a toggle and a reconciliation are queued, in this order
toggleThenSync(queue) ==
  Len(queue) = 2 /\ queue[1].op = "toggleLayer" /\ queue[2].op = "syncEffect"

syncThenToggle(queue) ==
  Len(queue) = 2 /\ queue[1].op = "syncEffect" /\ queue[2].op = "toggleLayer"

\* C23: the visible-layer set changes only when a render applies updates
\* queued by toggleLayer, the reconciliation effect or loadInitialLayers; a
\* toggle and a reconciliation queued together are applied each to the set
\* the other left, in the order they were queued: after reconciliation then
\* toggle the set is the fetched ids with the toggled id flipped, never a set
\* computed from the ids tracked before the reconciliation.
C23_NoLostUpdate ==
  [][/\ visibleLayerIds' /= visibleLayerIds =>
          /\ updateQueue /= <<>>
          /\ updateQueue' = <<>>
          /\ \A n \in DOMAIN updateQueue :
               updateQueue[n].op \in {"toggleLayer", "syncEffect", "loadInitialLayers"}
     /\ updateQueue' = <<>> /\ toggleThenSync(updateQueue) =>
          visibleLayerIds' =
            syncVisibleLayerIds(toggleUpdater(visibleLayerIds, updateQueue[1].arg),
                                updateQueue[2].arg)
     /\ updateQueue' = <<>> /\ syncThenToggle(updateQueue) =>
          /\ visibleLayerIds' =
               toggleUpdater(syncVisibleLayerIds(visibleLayerIds, updateQueue[1].arg),
                             updateQueue[2].arg)
          /\ visibleLayerIds' \subseteq layerIds(updateQueue[1].arg) \cup {updateQueue[2].arg}]_vars

\* a reconciliation that replaced the tracked ids and a toggle queued after
\* it have been applied in one render: the toggled layer alone is hidden
C23_Witness ==
  /\ lastOp = "render"
  /\ lastArg = <<"syncEffect", "toggleLayer">>
  /\ prevVisible = {forest_quercus_robur}
  /\ layerIds(fetchedForestLayers) = {forest_quercus_robur, forest_fagus_sylvatica}
  /\ visibleLayerIds = {forest_fagus_sylvatica}

----------------------------------------------------------------------------
\* Claims about the loading overlay

\* C25: once the overlay is visible it stays visible for at least
\* minDisplayMs before the hook hides it, for initial and for delayed loads;
\* and in a non-initial load the overlay becomes visible only after isLoading
\* has been true for at least delayMs.
C25_MinimumDisplay ==
  [][/\ (ld.shouldShowLoading /\ ~ld'.shouldShowLoading /\ lastOp' /= "resetLoading")
          => ldHist.shownFor >= ldProps'.minDisplayMs
     /\ (~ld.shouldShowLoading /\ ld'.shouldShowLoading /\ ~ldProps'.isInitialLoad)
          => ldHist.loadingFor >= ldProps'.delayMs]_vars

\* C29: whatever isLoading, isInitialLoad, delayMs and minDisplayMs do and
\* whenever resetLoading is called, if isLoading becomes false and stays
\* false, the overlay is eventually hidden and stays hidden.
C29_OverlayIsEventuallyHidden ==
  <>[](~ldProps.isLoading) => <>[](~ld.shouldShowLoading)

\* loading has finished while the overlay was up, a change of an option has
\* cancelled the minimum-display timeout, and the timeout set again has
\* hidden the overlay
C29_Witness ==
  /\ lastOp = "minDisplayTimeout"
  /\ ~ldProps.isLoading
  /\ ~ld.shouldShowLoading
  /\ ldProps.minDisplayMs = LongMinDisplayMs
  /\ ldHist.shownFor >= LongMinDisplayMs

====
